---- MODULE Spec2Model ----
(***************************************************************************)
(* A model of the Telegram intake conversation of workflow_manager.py:     *)
(* the update cursor, the cancellation watch, the four-step conversation,  *)
(* the multi-part script step and main's exit status.                      *)
(*                                                                         *)
(* Texts are sequences of one-character strings, so that strip, lower,     *)
(* upper, split and join are computed as Python computes them.             *)
(* Wall-clock time is abstracted: a deadline or an interval that the code  *)
(* reads from time.time() may have passed at any loop test that follows a  *)
(* network round trip of the same wait.  File writes are taken to succeed; *)
(* send_message never raises (it catches its own failures), so a call to   *)
(* it is recorded as a message sent.                                       *)
(***************************************************************************)
EXTENDS Integers, Sequences, FiniteSets, TLC

\* ---------------------------------------------------------------- bounds

\* Updates that may arrive on the feed during one run.
MaxEvents == 6
\* Updates that may sit unconfirmed on the server at one time.
MaxPending == 2
\* Updates already on the server when the process starts.
MaxStale == 1

\* ------------------------------------------------------------------ text

\* Python's None where a text is expected
None == << "None" >>

LowerChars ==
  << "a","b","c","d","e","f","g","h","i","j","k","l","m",
     "n","o","p","q","r","s","t","u","v","w","x","y","z" >>

UpperChars ==
  << "A","B","C","D","E","F","G","H","I","J","K","L","M",
     "N","O","P","Q","R","S","T","U","V","W","X","Y","Z" >>

Whitespace == {" ", "\n"}

Letters == {LowerChars[k] : k \in 1..26} \cup {UpperChars[k] : k \in 1..26}

\* The lower-case and upper-case form of each letter
LowerOf ==
  [c \in Letters |->
     IF \E k \in 1..26 : UpperChars[k] = c
       THEN LowerChars[CHOOSE k \in 1..26 : UpperChars[k] = c] ELSE c]

UpperOf ==
  [c \in Letters |->
     IF \E k \in 1..26 : LowerChars[k] = c
       THEN UpperChars[CHOOSE k \in 1..26 : LowerChars[k] = c] ELSE c]

LowerChar(c) == IF c \in Letters THEN LowerOf[c] ELSE c

UpperChar(c) == IF c \in Letters THEN UpperOf[c] ELSE c

\* str.lower()
lower(s) == [i \in 1..Len(s) |-> LowerChar(s[i])]

\* str.upper()
upper(s) == [i \in 1..Len(s) |-> UpperChar(s[i])]

\* str.strip(): leading and trailing whitespace removed
strip(s) ==
  LET keep == {i \in 1..Len(s) : s[i] \notin Whitespace}
  IN  IF keep = {} THEN << >>
      ELSE SubSeq(s, CHOOSE i \in keep : \A j \in keep : i <= j,
                     CHOOSE i \in keep : \A j \in keep : i >= j)

\* str.split(sep): every separator cuts, empty tokens are kept
RECURSIVE split(_, _)
split(s, seps) ==
  IF \A i \in 1..Len(s) : s[i] \notin seps THEN << s >>
  ELSE LET k == CHOOSE i \in 1..Len(s) :
                  s[i] \in seps /\ \A j \in 1..(i-1) : s[j] \notin seps
       IN  << SubSeq(s, 1, k-1) >> \o split(SubSeq(s, k+1, Len(s)), seps)

NonEmpty(t) == t # << >>

\* str.split() without a separator: runs of whitespace cut, no empty token
words(s) == SelectSeq(split(s, Whitespace), NonEmpty)

\* str.startswith(prefix)
startswith(s, prefix) ==
  /\ Len(s) >= Len(prefix)
  /\ SubSeq(s, 1, Len(prefix)) = prefix

\* str.endswith(suffix)
endswith(s, suffix) ==
  /\ Len(s) >= Len(suffix)
  /\ SubSeq(s, Len(s) - Len(suffix) + 1, Len(s)) = suffix

\* '\n'.join(parts)
RECURSIVE join(_)
join(parts) ==
  IF parts = << >> THEN << >>
  ELSE IF Len(parts) = 1 THEN parts[1]
  ELSE parts[1] \o << "\n" >> \o join(Tail(parts))

\* The cancel directives, as compared after strip().lower()
CancelDirectives ==
  { << "/","c","a","n","c","e","l" >>,
    << "/","c","a","n","c","e","l","a","r" >>,
    << "c","a","n","c","e","l" >>,
    << "c","a","n","c","e","l","a","r" >> }

\* The finish sentinels, as compared after strip().upper()
FinishSentinels ==
  { << "P","R","O","N","T","O" >>,
    << "D","O","N","E" >>,
    << "F","I","M" >>,
    << "F","I","N","I","S","H" >> }

TxtSuffix == << ".","t","x","t" >>

\* Mutant: the directive is compared without lower()
IsCancelMutant(text) == text \in CancelDirectives

\* text.lower() in ['/cancel', '/cancelar', 'cancel', 'cancelar']
IsCancel(text) == lower(text) \in CancelDirectives

\* Mutant: the sentinel is compared without upper()
IsFinishMutant(text) == text \in FinishSentinels

\* text.upper() in ['PRONTO', 'DONE', 'FIM', 'FINISH']
IsFinish(text) == upper(text) \in FinishSentinels


\* ---------------------------------------------------------------- events

\* TELEGRAM_CHAT_ID, and a chat that is not the configured recipient
TELEGRAM_CHAT_ID == "operator"
OtherChat == "stranger"

TextMessage(chat, text) ==
  [kind |-> "message", chat |-> chat, text |-> text, data |-> << >>,
   has_doc |-> FALSE, file_name |-> << >>, content |-> << >>]

DocumentMessage(chat, file_name, content) ==
  [kind |-> "message", chat |-> chat, text |-> << >>, data |-> << >>,
   has_doc |-> TRUE, file_name |-> file_name, content |-> content]

CallbackQuery(chat, data) ==
  [kind |-> "callback_query", chat |-> chat, text |-> << >>, data |-> data,
   has_doc |-> FALSE, file_name |-> << >>, content |-> << >>]

\* Representative texts an operator sends
TextHi      == << "H","i" >>
TextTags    == << "a",",",","," ","b"," " >>
TextCancel  == << " ","/","C","a","n","c","e","l" >>
TextPronto  == << "p","r","o","n","t","o" >>
FileTxt     == << "s",".","t","x","t" >>
FilePdf     == << "s",".","p","d","f" >>
DocContent  == << "H","i","\n","H","i" >>

\* Commands and button payloads of the download management
Slash              == << "/" >>
CmdDownloads       == << "/","d","o","w","n","l","o","a","d","s" >>
CmdList            == << "/","l","i","s","t" >>
CmdConfirmPrefix   == << "/","c","o","n","f","i","r","m"," " >>
CmdCleanup         == << "/","c","l","e","a","n","u","p" >>
CmdHelp            == << "/","h","e","l","p" >>
DataConfirmPrefix  == << "c","o","n","f","i","r","m",":" >>
DataCleanupConfirmed ==
  << "c","l","e","a","n","u","p","_","c","o","n","f","i","r","m","e","d" >>
DataCleanupExpired ==
  << "c","l","e","a","n","u","p","_","e","x","p","i","r","e","d" >>

\* Video ids of pending downloads
V1 == << "v","1" >>
V2 == << "v","2" >>

\* The updates the environment may put on the feed.  While a one-line step
\* waits, one plain text stands for every answer; the Script step tells
\* fragments, the finish sentinel and documents apart.
WaitEvents ==
  { TextMessage(TELEGRAM_CHAT_ID, TextTags),
    TextMessage(TELEGRAM_CHAT_ID, TextCancel),
    TextMessage(OtherChat, TextCancel),
    DocumentMessage(TELEGRAM_CHAT_ID, FilePdf, DocContent),
    CallbackQuery(TELEGRAM_CHAT_ID, DataCleanupExpired) }

ScriptEvents ==
  { TextMessage(TELEGRAM_CHAT_ID, TextHi),
    TextMessage(TELEGRAM_CHAT_ID, TextTags),
    TextMessage(TELEGRAM_CHAT_ID, TextCancel),
    TextMessage(TELEGRAM_CHAT_ID, TextPronto),
    TextMessage(OtherChat, TextCancel),
    DocumentMessage(TELEGRAM_CHAT_ID, FileTxt, DocContent),
    DocumentMessage(TELEGRAM_CHAT_ID, FilePdf, DocContent),
    CallbackQuery(TELEGRAM_CHAT_ID, DataCleanupExpired) }

ConversationEvents == WaitEvents \cup ScriptEvents

\* The updates that arrive while the production runs
ProductionEvents ==
  { TextMessage(TELEGRAM_CHAT_ID, CmdConfirmPrefix \o V1),
    TextMessage(TELEGRAM_CHAT_ID, CmdCleanup),
    TextMessage(OtherChat, CmdCleanup),
    CallbackQuery(OtherChat, DataCleanupExpired),
    CallbackQuery(TELEGRAM_CHAT_ID, DataConfirmPrefix \o V2) }

\* Updates left on the server by an earlier run
StaleEvents ==
  { TextMessage(TELEGRAM_CHAT_ID, TextTags) }

WithId(p, id) ==
  [update_id |-> id, kind |-> p.kind, chat |-> p.chat, text |-> p.text,
   data |-> p.data, has_doc |-> p.has_doc, file_name |-> p.file_name, content |-> p.content]

\* ----------------------------------------------------------------- state

VARIABLES
  pc,               \* where main and collect_video_info stand
  step,             \* the step wait_for_message is waiting for
  polled,           \* a network round trip was made in the current wait
  update_offset,    \* TelegramCollector.update_offset, the cursor
  cancelled,        \* TelegramCollector.cancelled
  cancel_flag_file, \* productions/cancel_flag.json: NoFile or its content
  titulo,           \* collect_video_info's locals
  descricao,
  tags_text,
  tags,
  roteiro_partes,   \* collect_script_multipart's fragment list
  production_files, \* the production records written, in order
  retval,           \* what collect_video_info returned
  exit_status,      \* what main returned
  prompts,          \* the step prompts sent, in order
  last_sent,        \* the message send_message was last called with
  updates,          \* the server's unconfirmed updates, oldest first
  next_update_id,   \* the id the server gives the next update
  outcome,          \* history: how the conversation ended
  seen,             \* history: the update ids the handlers evaluated
  cancel_evaluated, \* history: a handler evaluated an operator's cancel directive
  script_log,       \* history: the operator texts of the Script step
  last_check,       \* history: the check_for_cancel call just made
  script_via,       \* history: what ended the Script step
  pending_file,     \* productions/pending_downloads.json: NoStore or its mapping
  video_files,      \* the video files that exist on disk
  clock,            \* datetime.now(), in hours
  last_counts,      \* the counts in the store message last sent
  frag_texts,       \* script comparison: the texts the operator would send
  script_by_texts,  \* script comparison: the script got from text events
  script_by_document, \* script comparison: the script got from one document
  last_request,     \* store runs: the request handled last, and its fate
  loaded,           \* store races: what each invocation has loaded
  removed_ids,      \* store races, history: the ids some invocation removed
  stale_ids,        \* history: the ids of the updates that were on the
                    \* feed at startup and are unconsumed still
  backlog,          \* history: while a step waits, the ids of the updates
                    \* that were on the feed when its prompt was sent and
                    \* are unconsumed still
  now,              \* timed waits: time.time(), in seconds
  start_time,       \* timed waits: wait_for_message's locals
  last_reminder,
  last_cancel_check,
  reminder_log,     \* timed waits, history: the period of 120 seconds of
                    \* the wait in which each reminder was sent
  palavra_count,    \* summary: collect_video_info's word count
  segments          \* summary: the segment count the summary reports

vars ==
  << pc, step, polled, update_offset, cancelled, cancel_flag_file, titulo,
     descricao, tags_text, tags, roteiro_partes, production_files, retval, exit_status,
     prompts, last_sent, updates, next_update_id, outcome, seen,
     cancel_evaluated, script_log, last_check, script_via, pending_file,
     video_files, clock, last_counts, frag_texts, script_by_texts, script_by_document,
     last_request, loaded, removed_ids, stale_ids, backlog, now,
     start_time, last_reminder, last_cancel_check, reminder_log,
     palavra_count, segments >>

storeVars == << pending_file, video_files, clock, last_counts >>

aggVars == << frag_texts, script_by_texts, script_by_document >>

\* The variables the intake run leaves alone
raceVars == << loaded, removed_ids >>

timeVars == << now, start_time, last_reminder, last_cancel_check,
              reminder_log >>

summaryVars == << palavra_count, segments >>

\* The variables every intake action leaves alone
otherVars == << aggVars, last_request, raceVars, timeVars, summaryVars >>

histVars == << stale_ids, backlog >>

auxVars == << otherVars, histVars >>

NoFile == "absent"
FlagCancelled == "cancelled: true"
Unset == "unset"
NoCheck == [called |-> FALSE, batch |-> << >>, found |-> FALSE, at |-> 0]

Steps == << "title", "description", "tags", "script" >>

\* ------------------------------------------------------------ update feed

\* Mutant: the cursor is set to the update's id, not one past it
NextOffsetMutant(u) == u.update_id

\* self.update_offset = update['update_id'] + 1
NextOffset(u) == u.update_id + 1

\* getUpdates(offset): the unconfirmed updates from `offset` on, oldest first
getUpdates(offset) == SelectSeq(updates, LAMBDA u : u.update_id >= offset)

\* History only: the ids of the updates of `feed` at or above the cursor
Unconsumed(feed, offset) ==
  {feed[i].update_id : i \in {j \in 1..Len(feed) : feed[j].update_id >= offset}}

\* History only: the ids of `ids` a cursor at `offset` has not passed
Left(ids, offset) == {id \in ids : id >= offset}

\* getUpdates(offset = -1): the newest update alone; the older are forgotten
getLastUpdate == IF updates = << >> THEN << >> ELSE << updates[Len(updates)] >>

\* _get_last_update_id: one past the newest update, 0 when the call fails or
\* the feed is empty
get_last_update_id(ok) ==
  IF ok /\ getLastUpdate # << >> THEN getLastUpdate[1].update_id + 1 ELSE 0

IsOperatorMessage(u) == u.kind = "message" /\ u.chat = TELEGRAM_CHAT_ID

\* What a run starts from: an empty feed or updates of an earlier run
StaleFeeds ==
  UNION { [1..n -> StaleEvents] : n \in 0..MaxStale }

\* No store request handled yet (again: the request before was the same)
NoRequest ==
  [n |-> 0, via |-> "none", update |-> TextMessage(OtherChat, << >>),
   argv |-> << >>, post_ok |-> TRUE, rm_fail |-> {}, again |-> FALSE]

\* The invocations of manage_downloads.py that may run at the same time
Procs == {"first", "second"}

\* An invocation that has loaded nothing
NotLoaded == [busy |-> FALSE, argv |-> << >>,
              file |-> [exists |-> FALSE, data |-> << >>]]

\* No invocation is running
RaceIdle ==
  /\ loaded = [p \in Procs |-> NotLoaded]
  /\ removed_ids = {}

\* No wait is being timed and no summary was sent
TimeIdle ==
  /\ now = 0
  /\ start_time = 0
  /\ last_reminder = 0
  /\ last_cancel_check = 0
  /\ reminder_log = << >>
  /\ palavra_count = 0
  /\ segments = 0 - 1

\* A run of the Script step that was not made
NoRun == [status |-> "unset", roteiro |-> << >>]

\* The script comparison is not running
AggIdle ==
  /\ frag_texts = << >>
  /\ script_by_texts = NoRun
  /\ script_by_document = NoRun

Init ==
  /\ AggIdle
  /\ RaceIdle
  /\ TimeIdle
  /\ last_request = NoRequest
  /\ pc = "main"
  /\ step = Unset
  /\ polled = FALSE
  /\ update_offset = 0
  /\ cancelled = FALSE
  /\ cancel_flag_file \in {NoFile, FlagCancelled}
  /\ titulo = None
  /\ descricao = None
  /\ tags_text = None
  /\ tags = << >>
  /\ roteiro_partes = << >>
  /\ production_files = << >>
  /\ retval = Unset
  /\ exit_status = << >>
  /\ prompts = << >>
  /\ last_sent = "nothing"
  /\ \E f \in StaleFeeds :
       /\ updates = [i \in 1..Len(f) |-> WithId(f[i], i)]
       /\ next_update_id = Len(f) + 1
       /\ stale_ids = 1..Len(f)
  /\ backlog = {}
  /\ outcome = "running"
  /\ seen = << >>
  /\ cancel_evaluated = FALSE
  /\ script_log = << >>
  /\ last_check = NoCheck
  /\ script_via = "none"
  /\ pending_file =
       [exists |-> TRUE,
        data |-> (V1 :> [confirmed |-> FALSE, timestamp |-> 0,
                         video_path |-> "videos/v1.mp4"])
              @@ (V2 :> [confirmed |-> TRUE, timestamp |-> 24,
                         video_path |-> "videos/v2.mp4"])]
  /\ video_files = {"videos/v1.mp4"}
  /\ clock = 25
  /\ last_counts = [removed |-> 0 - 1, deleted |-> 0 - 1, pending |-> 0 - 1]

\* The environment: somebody sends the bot an update
Arrive(p) ==
  /\ pc \in {"collect", "wait_top", "wait_poll", "script", "production"}
  /\ p \in CASE pc = "script" -> ScriptEvents
            [] pc = "production" -> ProductionEvents
            [] OTHER -> WaitEvents
  /\ Len(updates) < MaxPending
  /\ next_update_id <= MaxEvents
  /\ updates' = Append(updates, WithId(p, next_update_id))
  /\ next_update_id' = next_update_id + 1
  /\ UNCHANGED << pc, step, polled, update_offset, cancelled, cancel_flag_file,
                  titulo, descricao, tags, roteiro_partes, production_files,
                  retval, exit_status, prompts, last_sent, outcome, seen,
                  cancel_evaluated, script_log, last_check >>
  /\ UNCHANGED << tags_text, script_via, storeVars, auxVars >>

\* main up to TelegramCollector(): __init__ sets the cursor
Construct(ok) ==
  /\ pc = "main"
  /\ update_offset' = get_last_update_id(ok)
  /\ updates' = IF ok THEN getLastUpdate ELSE updates
  /\ cancelled' = FALSE
  /\ pc' = "collect"
  /\ stale_ids' = Left(stale_ids, update_offset')
  /\ UNCHANGED << step, polled, cancel_flag_file, titulo, descricao, tags,
                  roteiro_partes, production_files, retval, exit_status,
                  prompts, last_sent, next_update_id, outcome, seen,
                  cancel_evaluated, script_log, last_check >>
  /\ UNCHANGED << tags_text, script_via, storeVars, otherVars, backlog >>

\* ------------------------------------------------------ cancellation watch

\* History only: update u is a cancel directive sent by the operator
IsCancelDirective(u) ==
  /\ u.kind = "message"
  /\ u.chat = TELEGRAM_CHAT_ID
  /\ lower(strip(u.text)) \in CancelDirectives

\* History only: update u is a text of the operator that is neither a cancel
\* directive nor a finish sentinel
IsFragmentEvent(u) ==
  /\ u.kind = "message"
  /\ u.chat = TELEGRAM_CHAT_ID
  /\ strip(u.text) # << >>
  /\ lower(strip(u.text)) \notin CancelDirectives
  /\ upper(strip(u.text)) \notin FinishSentinels

\* History only: update u is a finish sentinel of the operator
IsFinishEvent(u) ==
  /\ u.kind = "message"
  /\ u.chat = TELEGRAM_CHAT_ID
  /\ ~u.has_doc
  /\ upper(strip(u.text)) \in FinishSentinels

\* Mutant: the cursor moves only past the operator's messages
RECURSIVE CheckBatchMutant(_, _, _)
CheckBatchMutant(batch, i, st) ==
  IF i > Len(batch)
    THEN [found |-> FALSE, offset |-> st.offset, seen |-> st.seen]
    ELSE LET u  == batch[i]
             s1 == [offset |-> IF IsOperatorMessage(u) THEN NextOffset(u)
                               ELSE st.offset,
                    seen   |-> Append(st.seen, u.update_id)]
         IN  IF IsOperatorMessage(u) /\ IsCancel(strip(u.text))
               THEN [found |-> TRUE, offset |-> s1.offset, seen |-> s1.seen]
               ELSE CheckBatchMutant(batch, i + 1, s1)

\* check_for_cancel's loop over the batch, from its i-th update on
RECURSIVE CheckBatch(_, _, _)
CheckBatch(batch, i, st) ==
  IF i > Len(batch)
    THEN [found |-> FALSE, offset |-> st.offset, seen |-> st.seen]
    ELSE LET u  == batch[i]
             s1 == [offset |-> NextOffset(u),
                    seen   |-> Append(st.seen, u.update_id)]
         IN  IF IsOperatorMessage(u) /\ IsCancel(strip(u.text))
               THEN [found |-> TRUE, offset |-> s1.offset, seen |-> s1.seen]
               ELSE CheckBatch(batch, i + 1, s1)

\* Mutant: the cancel marker of an earlier run is left in place
CollectStartMutant ==
  /\ pc = "collect"
  /\ UNCHANGED cancel_flag_file
  /\ last_sent' = "prompt"
  /\ prompts' = Append(prompts, "title")
  /\ step' = "title"
  /\ polled' = FALSE
  /\ pc' = "wait_top"
  /\ backlog' = Unconsumed(updates, update_offset)
  /\ UNCHANGED << update_offset, cancelled, titulo, descricao, tags,
                  roteiro_partes, production_files, retval, exit_status,
                  updates, next_update_id, outcome, seen, cancel_evaluated,
                  script_log, last_check >>
  /\ UNCHANGED << tags_text, script_via, storeVars, otherVars, stale_ids >>

\* collect_video_info: the first lines, up to the wait for the title
CollectStart ==
  /\ pc = "collect"
  /\ cancel_flag_file' = NoFile
  /\ last_sent' = "prompt"
  /\ prompts' = Append(prompts, "title")
  /\ step' = "title"
  /\ polled' = FALSE
  /\ pc' = "wait_top"
  /\ backlog' = Unconsumed(updates, update_offset)
  /\ UNCHANGED << update_offset, cancelled, titulo, descricao, tags,
                  roteiro_partes, production_files, retval, exit_status,
                  updates, next_update_id, outcome, seen, cancel_evaluated,
                  script_log, last_check >>
  /\ UNCHANGED << tags_text, script_via, storeVars, otherVars, stale_ids >>

\* wait_for_message: the loop test fails, None is returned, and
\* collect_video_info tells the operator and returns None
WaitTimeout ==
  /\ pc = "wait_top"
  /\ polled
  /\ last_sent' = "timeout"
  /\ retval' = "None"
  /\ outcome' = "timeout"
  /\ pc' = "returned"
  /\ backlog' = {}
  /\ UNCHANGED << step, polled, update_offset, cancelled, cancel_flag_file,
                  titulo, descricao, tags, roteiro_partes, production_files,
                  exit_status, prompts, updates, next_update_id, seen,
                  cancel_evaluated, script_log, last_check >>
  /\ UNCHANGED << tags_text, script_via, storeVars, otherVars, stale_ids >>

\* wait_for_message: the cancel check is due; check_for_cancel polls with
\* timeout 0 and, on a directive, WorkflowCancelled unwinds to
\* collect_video_info, which returns None
CheckForCancel(ok) ==
  /\ pc = "wait_top"
  /\ polled
  /\ IF ~ok
       THEN /\ pc' = "wait_poll"
            /\ UNCHANGED << update_offset, cancelled, cancel_flag_file, last_sent,
                            retval, updates, outcome, seen, cancel_evaluated,
                            last_check >>
       ELSE LET batch == getUpdates(update_offset)
                r == CheckBatch(batch, 1, [offset |-> update_offset,
                                           seen |-> seen])
            IN  /\ updates' = batch
                /\ update_offset' = r.offset
                /\ seen' = r.seen
                /\ cancel_evaluated' =
                     (cancel_evaluated \/
                        \E i \in 1..Len(batch) :
                          /\ batch[i].update_id < r.offset
                          /\ IsCancelDirective(batch[i]))
                /\ last_check' =
                     [called |-> TRUE, batch |-> batch, found |-> r.found,
                      at |-> update_offset]
                /\ IF r.found
                     THEN /\ cancelled' = TRUE
                          /\ cancel_flag_file' = FlagCancelled
                          /\ last_sent' = "cancelled"
                          /\ retval' = "None"
                          /\ outcome' = "cancelled"
                          /\ pc' = "returned"
                     ELSE /\ pc' = "wait_poll"
                          /\ UNCHANGED << cancelled, cancel_flag_file, last_sent,
                                          retval, outcome >>
  /\ stale_ids' = Left(stale_ids, update_offset')
  /\ backlog' = IF pc' = "returned" THEN {}
                ELSE Left(backlog, update_offset')
  /\ UNCHANGED << step, polled, titulo, descricao, tags, roteiro_partes,
                  production_files, exit_status, prompts, next_update_id,
                  script_log >>
  /\ UNCHANGED << tags_text, script_via, storeVars, otherVars >>

\* wait_for_message: the cancel check is not due yet
SkipCancelCheck ==
  /\ pc = "wait_top"
  /\ pc' = "wait_poll"
  /\ UNCHANGED << step, polled, update_offset, cancelled, cancel_flag_file,
                  titulo, descricao, tags, roteiro_partes, production_files,
                  retval, exit_status, prompts, last_sent, updates,
                  next_update_id, outcome, seen, cancel_evaluated, script_log,
                  last_check >>
  /\ UNCHANGED << tags_text, script_via, storeVars, auxVars >>

\* wait_for_message: another 120 seconds have passed, a reminder is sent
Remind ==
  /\ pc = "wait_poll"
  /\ polled
  /\ last_sent # "reminder"
  /\ last_sent' = "reminder"
  /\ UNCHANGED << pc, step, polled, update_offset, cancelled, cancel_flag_file,
                  titulo, descricao, tags, roteiro_partes, production_files,
                  retval, exit_status, prompts, updates, next_update_id,
                  outcome, seen, cancel_evaluated, script_log, last_check >>
  /\ UNCHANGED << tags_text, script_via, storeVars, auxVars >>

\* ------------------------------------------------------- wait_for_message

\* wait_for_message's loop over the batch, from its i-th update on
RECURSIVE WaitBatch(_, _, _)
WaitBatch(batch, i, st) ==
  IF i > Len(batch)
    THEN [status |-> "continue", text |-> << >>,
          offset |-> st.offset, seen |-> st.seen]
    ELSE LET u    == batch[i]
             s1   == [offset |-> NextOffset(u),
                      seen   |-> Append(st.seen, u.update_id)]
             text == strip(u.text)
         IN  IF ~IsOperatorMessage(u) THEN WaitBatch(batch, i + 1, s1)
             ELSE IF IsCancel(text)
               THEN [status |-> "cancel", text |-> << >>,
                     offset |-> s1.offset, seen |-> s1.seen]
             ELSE IF text # << >>
               THEN [status |-> "answer", text |-> text,
                     offset |-> s1.offset, seen |-> s1.seen]
             ELSE WaitBatch(batch, i + 1, s1)

\* tags = [tag.strip() for tag in tags_text.split(',')]
ParseTags(answer) ==
  LET parts == split(answer, {","})
  IN  [i \in 1..Len(parts) |-> strip(parts[i])]

\* Mutant: the description is not asked for
NextStepMutant(s) ==
  CASE s = "title" -> "tags"
    [] s = "description" -> "tags"
    [] s = "tags" -> "script"

\* The step collect_video_info asks for after step s
NextStep(s) ==
  CASE s = "title" -> "description"
    [] s = "description" -> "tags"
    [] s = "tags" -> "script"

\* wait_for_message: one long poll and the loop over its batch; on an answer
\* collect_video_info stores it, acknowledges it and sends the next prompt
WaitPoll(ok) ==
  /\ pc = "wait_poll"
  /\ last_check' = NoCheck
  /\ IF ~ok
       THEN /\ pc' = "wait_top"
            /\ polled' = TRUE
            /\ UNCHANGED << step, update_offset, cancelled, cancel_flag_file,
                            titulo, descricao, tags_text, tags, retval, prompts, last_sent,
                            updates, outcome, seen, cancel_evaluated >>
       ELSE LET batch == getUpdates(update_offset)
                r == WaitBatch(batch, 1, [offset |-> update_offset,
                                          seen |-> seen])
            IN  /\ updates' = batch
                /\ update_offset' = r.offset
                /\ seen' = r.seen
                /\ cancel_evaluated' =
                     (cancel_evaluated \/
                        \E i \in 1..Len(batch) :
                          /\ batch[i].update_id < r.offset
                          /\ IsCancelDirective(batch[i]))
                /\ CASE r.status = "continue" ->
                          /\ pc' = "wait_top"
                          /\ polled' = TRUE
                          /\ UNCHANGED << step, cancelled, cancel_flag_file,
                                          titulo, descricao, tags_text, tags,
                                          retval,
                                          prompts, last_sent, outcome >>
                     [] r.status = "cancel" ->
                          /\ cancelled' = TRUE
                          /\ cancel_flag_file' = FlagCancelled
                          /\ last_sent' = "cancelled"
                          /\ retval' = "None"
                          /\ outcome' = "cancelled"
                          /\ pc' = "returned"
                          /\ polled' = TRUE
                          /\ UNCHANGED << step, titulo, descricao, tags_text,
                                          tags, prompts >>
                     [] r.status = "answer" ->
                          /\ titulo' = IF step = "title" THEN r.text ELSE titulo
                          /\ descricao' = IF step = "description" THEN r.text
                                          ELSE descricao
                          /\ tags_text' = IF step = "tags" THEN r.text
                                          ELSE tags_text
                          /\ tags' = IF step = "tags" THEN ParseTags(r.text)
                                     ELSE tags
                          /\ last_sent' = "prompt"
                          /\ prompts' = Append(prompts, NextStep(step))
                          /\ step' = NextStep(step)
                          /\ pc' = IF NextStep(step) = "script" THEN "script"
                                   ELSE "wait_top"
                          /\ polled' = FALSE
                          /\ UNCHANGED << cancelled, cancel_flag_file, retval,
                                          outcome >>
  /\ stale_ids' = Left(stale_ids, update_offset')
  /\ backlog' = IF pc' = "returned" THEN {}
                ELSE IF step' # step
                  THEN Unconsumed(updates', update_offset')
                ELSE Left(backlog, update_offset')
  /\ UNCHANGED << roteiro_partes, production_files, exit_status,
                  next_update_id, script_log >>
  /\ UNCHANGED << script_via, storeVars, otherVars >>

\* ------------------------------------------------ collect_script_multipart

\* How the getFile lookup and the download of a .txt document may end: the
\* document's text, an empty body, a lookup that is not ok, an exception
Retrievals == {"ok", "empty", "not_ok", "error"}

\* Mutant: the fragment is put in front of the list
AppendPartMutant(partes, text) == << text >> \o partes

\* roteiro_partes.append(text)
AppendPart(partes, text) == Append(partes, text)

\* Mutant: the first fragment alone is the script
JoinPartsMutant(partes) == IF partes = << >> THEN << >> ELSE partes[1]

\* roteiro_completo = '\n'.join(roteiro_partes)
JoinParts(partes) == join(partes)

\* Mutant: the document is added to the fragments collected so far
DocumentScriptMutant(partes, content) == JoinParts(Append(partes, content))

\* roteiro_completo = content_resp.text; return roteiro_completo: the
\* fragments collected so far take no part in it
DocumentScript(partes, content) == content

\* collect_script_multipart's loop over the batch, from its i-th update on;
\* fate[i] is how the retrieval of the i-th update's document ends
RECURSIVE ScriptBatch(_, _, _, _)
ScriptBatch(batch, fate, i, st) ==
  IF i > Len(batch)
    THEN [status |-> "continue", roteiro |-> << >>, offset |-> st.offset,
          seen |-> st.seen, partes |-> st.partes, sent |-> st.sent]
    ELSE
      LET u    == batch[i]
          txt  == u.has_doc /\ endswith(u.file_name, TxtSuffix)
          s1   == [offset |-> NextOffset(u),
                   seen |-> Append(st.seen, u.update_id),
                   partes |-> st.partes,
                   sent |-> IF IsOperatorMessage(u) /\ txt
                              THEN "file_received" ELSE st.sent]
          text == strip(u.text)
          Done(status, roteiro, s) ==
            [status |-> status, roteiro |-> roteiro, offset |-> s.offset,
             seen |-> s.seen, partes |-> s.partes, sent |-> s.sent]
      IN  IF ~IsOperatorMessage(u) THEN ScriptBatch(batch, fate, i + 1, s1)
          ELSE IF txt /\ fate[i] = "ok"
            THEN Done("document", DocumentScript(st.partes, u.content), s1)
          ELSE IF txt /\ fate[i] = "empty" THEN Done("document", << >>, s1)
          ELSE IF txt /\ fate[i] = "error"
            THEN ScriptBatch(batch, fate, i + 1,
                   [s1 EXCEPT !.sent = "file_error"])
          ELSE IF text = << >> THEN ScriptBatch(batch, fate, i + 1, s1)
          ELSE IF IsCancel(text) THEN Done("cancel", << >>, s1)
          ELSE IF IsFinish(text)
            THEN IF st.partes = << >>
                   THEN ScriptBatch(batch, fate, i + 1,
                          [s1 EXCEPT !.sent = "nothing_sent_yet"])
                   ELSE Done("finish", JoinParts(st.partes), s1)
          ELSE ScriptBatch(batch, fate, i + 1,
                 [s1 EXCEPT !.partes = AppendPart(@, text),
                            !.sent = "part_received"])

\* The production record collect_video_info builds and writes
VideoData(roteiro) ==
  [video_id |-> "video", title |-> titulo, description |-> descricao,
   tags |-> tags, script |-> roteiro, status |-> "collected",
   word_count |-> Len(words(roteiro))]

\* collect_video_info once collect_script_multipart has returned `roteiro`
\* (None standing for Python's None); `how` tells an abandonment by timeout
\* from one by an empty document
AfterScript(roteiro, how) ==
  IF roteiro = None \/ roteiro = << >>
    THEN /\ last_sent' = "no_script"
         /\ retval' = "None"
         /\ outcome' = how
         /\ UNCHANGED production_files
    ELSE /\ last_sent' = "script_received"
         /\ production_files' = Append(production_files, VideoData(roteiro))
         /\ retval' = "video_data"
         /\ outcome' = "completed"

\* Mutant: a timeout returns no script, whatever was collected
TimeoutScriptMutant(partes) == None

\* if roteiro_partes: return '\n'.join(roteiro_partes); return None
TimeoutScript(partes) ==
  IF partes # << >> THEN JoinParts(partes) ELSE None

\* collect_script_multipart: the loop test fails; the fragments collected so
\* far are the script, or None when there are none
ScriptTimeout ==
  /\ pc = "script"
  /\ polled
  /\ AfterScript(TimeoutScript(roteiro_partes), "timeout")
  /\ pc' = "returned"
  /\ UNCHANGED << step, polled, update_offset, cancelled, cancel_flag_file,
                  titulo, descricao, tags, roteiro_partes, exit_status,
                  prompts, updates, next_update_id, seen, cancel_evaluated,
                  script_log, last_check >>
  /\ script_via' = "timeout"
  /\ backlog' = {}
  /\ UNCHANGED << tags_text, storeVars, otherVars, stale_ids >>

\* collect_script_multipart: one long poll and the loop over its batch
ScriptPoll(ok, fate) ==
  /\ pc = "script"
  /\ polled' = TRUE
  /\ IF ~ok
       THEN UNCHANGED << pc, update_offset, roteiro_partes, production_files,
                         retval, last_sent, updates, outcome, seen,
                         cancel_evaluated, script_log, script_via >>
       ELSE LET batch == getUpdates(update_offset)
                r == ScriptBatch(batch, fate, 1,
                       [offset |-> update_offset, seen |-> seen,
                        partes |-> roteiro_partes, sent |-> last_sent])
            IN  /\ updates' = batch
                /\ update_offset' = r.offset
                /\ seen' = r.seen
                /\ roteiro_partes' = r.partes
                /\ script_log' =
                     LET got == SelectSeq(batch,
                                  LAMBDA u : u.update_id < r.offset
                                             /\ IsFragmentEvent(u))
                     IN  script_log \o
                           [i \in 1..Len(got) |-> strip(got[i].text)]
                /\ cancel_evaluated' =
                     (cancel_evaluated \/
                        \E i \in 1..Len(batch) :
                          /\ batch[i].update_id < r.offset
                          /\ IsCancelDirective(batch[i]))
                /\ CASE r.status = "continue" ->
                          /\ last_sent' = r.sent
                          /\ UNCHANGED << pc, production_files, retval,
                                          outcome, script_via >>
                     [] r.status = "cancel" ->
                          /\ last_sent' = r.sent
                          /\ retval' = "None"
                          /\ outcome' = "cancelled"
                          /\ pc' = "returned"
                          /\ UNCHANGED << production_files, script_via >>
                     [] r.status \in {"document", "finish"} ->
                          /\ AfterScript(r.roteiro, "empty_document")
                          /\ script_via' = r.status
                          /\ pc' = "returned"
  /\ stale_ids' = Left(stale_ids, update_offset')
  /\ backlog' = IF pc' = "returned" THEN {}
                ELSE Left(backlog, update_offset')
  /\ UNCHANGED << step, cancelled, cancel_flag_file, titulo, descricao, tags,
                  exit_status, prompts, next_update_id, last_check >>
  /\ UNCHANGED << tags_text, storeVars, otherVars >>

\* ------------------------------------------------------------------ main

\* Mutant: main reports success when there is no video_data
StatusWithoutDataMutant == 1 - 1

\* The status main returns when collect_video_info gave it no video_data
StatusWithoutData == 1

\* main: collect_video_info has returned; without video_data main returns
MainAfterCollect ==
  /\ pc = "returned"
  /\ IF retval = "None"
       THEN /\ exit_status' = << StatusWithoutData >>
            /\ pc' = "exit"
       ELSE /\ pc' = "production"
            /\ UNCHANGED exit_status
  /\ UNCHANGED << step, polled, update_offset, cancelled, cancel_flag_file,
                  titulo, descricao, tags, roteiro_partes, production_files,
                  retval, prompts, last_sent, updates, next_update_id, outcome,
                  seen, cancel_evaluated, script_log, last_check >>
  /\ UNCHANGED << tags_text, script_via, storeVars, auxVars >>

\* How create_video.run_production may end
Productions == {"success", "failure", "WorkflowCancelled", "Exception"}

\* The status main returns for each end of run_production
ProductionStatus(result) ==
  CASE result = "success" -> 0
    [] result = "failure" -> 1
    [] result = "WorkflowCancelled" -> 2
    [] result = "Exception" -> 1

\* main: the production is run and main returns
RunProduction(result) ==
  /\ pc = "production"
  /\ exit_status' = << ProductionStatus(result) >>
  /\ pc' = "exit"
  /\ UNCHANGED << step, polled, update_offset, cancelled, cancel_flag_file,
                  titulo, descricao, tags, roteiro_partes, production_files,
                  retval, prompts, last_sent, updates, next_update_id, outcome,
                  seen, cancel_evaluated, script_log, last_check >>
  /\ UNCHANGED << tags_text, script_via, storeVars, auxVars >>

\* --------------------------------------------- pending downloads (chat)

\* cleanup_expired_downloads' default: hours=24
ExpiryHours == 24

\* The mapping `pending` without the ids of `gone`
Without(pending, gone) ==
  [id \in DOMAIN pending \ gone |-> pending[id]]

\* The ids of `ids` whose file is deleted: os.path.exists(video_path) holds
\* and os.remove(video_path) does not raise (rm_fail: the paths it raises on)
Deleted(files, pending, ids, rm_fail) ==
  {id \in ids : /\ pending[id].video_path \in files
                /\ pending[id].video_path \notin rm_fail}

\* The video files left once the files of the ids of `ids` were tried
FilesAfter(files, pending, ids, rm_fail) ==
  files \ {pending[id].video_path : id \in Deleted(files, pending, ids, rm_fail)}

\* No count in the message sent
NotReported == 0 - 1

\* The counts a message reports: entries removed, files deleted, entries left
Counts(removed, deleted, pending) ==
  [removed |-> removed, deleted |-> deleted, pending |-> pending]

NoCounts == Counts(NotReported, NotReported, NotReported)

\* What a store operation leaves: the pending file, the video files, the
\* message sent, the counts in it, and whether it wrote the pending file
StoreResult(file, files, sent, counts, wrote) ==
  [file |-> file, files |-> files, sent |-> sent, counts |-> counts,
   wrote |-> wrote]

\* Mutant: the entry stays when its file was not deleted
confirm_downloadMutant(st, video_id, rm_fail) ==
  IF ~st.file.exists
    THEN StoreResult(st.file, st.files, "nothing_pending", NoCounts, FALSE)
  ELSE IF video_id \notin DOMAIN st.file.data
    THEN StoreResult(st.file, st.files, "invalid_id", NoCounts, FALSE)
  ELSE LET removed == Deleted(st.files, st.file.data, {video_id}, rm_fail)
           left == Without(st.file.data, removed)
       IN  StoreResult(
             [exists |-> TRUE, data |-> left],
             FilesAfter(st.files, st.file.data, {video_id}, rm_fail),
             IF removed # {} THEN "confirmed" ELSE "confirmed_file_gone",
             Counts(NotReported, NotReported, Cardinality(DOMAIN left)),
             TRUE)

\* confirm_download(video_id)
confirm_download(st, video_id, rm_fail) ==
  IF ~st.file.exists
    THEN StoreResult(st.file, st.files, "nothing_pending", NoCounts, FALSE)
  ELSE IF video_id \notin DOMAIN st.file.data
    THEN StoreResult(st.file, st.files, "invalid_id", NoCounts, FALSE)
  ELSE LET left == Without(st.file.data, {video_id})
           removed == Deleted(st.files, st.file.data, {video_id}, rm_fail)
       IN  StoreResult(
             [exists |-> TRUE, data |-> left],
             FilesAfter(st.files, st.file.data, {video_id}, rm_fail),
             IF removed # {} THEN "confirmed" ELSE "confirmed_file_gone",
             Counts(NotReported, NotReported, Cardinality(DOMAIN left)),
             TRUE)

\* Mutant: the entries that stay are marked confirmed
cleanup_confirmed_downloadsMutantMark(st, rm_fail) ==
  IF ~st.file.exists
    THEN StoreResult(st.file, st.files, "nothing_to_clean", NoCounts, FALSE)
  ELSE LET to_remove == {id \in DOMAIN st.file.data :
                           st.file.data[id].confirmed}
           left == [id \in DOMAIN st.file.data \ to_remove |->
                      [st.file.data[id] EXCEPT !.confirmed = TRUE]]
       IN  StoreResult(
             [exists |-> TRUE, data |-> left],
             FilesAfter(st.files, st.file.data, to_remove, rm_fail),
             "cleanup_done",
             Counts(Cardinality(to_remove),
                    Cardinality(Deleted(st.files, st.file.data, to_remove,
                                        rm_fail)),
                    Cardinality(DOMAIN left)),
             TRUE)

\* Mutant: a confirmed entry whose file could not be deleted stays
cleanup_confirmed_downloadsMutant(st, rm_fail) ==
  IF ~st.file.exists
    THEN StoreResult(st.file, st.files, "nothing_to_clean", NoCounts, FALSE)
  ELSE LET to_remove == {id \in DOMAIN st.file.data :
                           /\ st.file.data[id].confirmed
                           /\ st.file.data[id].video_path \notin
                                rm_fail \cap st.files}
           left == Without(st.file.data, to_remove)
       IN  StoreResult(
             [exists |-> TRUE, data |-> left],
             FilesAfter(st.files, st.file.data, to_remove, rm_fail),
             "cleanup_done",
             Counts(Cardinality(to_remove),
                    Cardinality(Deleted(st.files, st.file.data, to_remove,
                                        rm_fail)),
                    Cardinality(DOMAIN left)),
             TRUE)

\* cleanup_confirmed_downloads()
cleanup_confirmed_downloads(st, rm_fail) ==
  IF ~st.file.exists
    THEN StoreResult(st.file, st.files, "nothing_to_clean", NoCounts, FALSE)
  ELSE LET to_remove == {id \in DOMAIN st.file.data :
                           st.file.data[id].confirmed}
           left == Without(st.file.data, to_remove)
       IN  StoreResult(
             [exists |-> TRUE, data |-> left],
             FilesAfter(st.files, st.file.data, to_remove, rm_fail),
             "cleanup_done",
             Counts(Cardinality(to_remove),
                    Cardinality(Deleted(st.files, st.file.data, to_remove,
                                        rm_fail)),
                    Cardinality(DOMAIN left)),
             TRUE)

\* Mutant: an entry exactly `hours` old is expired too
cleanup_expired_downloadsMutant(st, hours, rm_fail) ==
  IF ~st.file.exists
    THEN StoreResult(st.file, st.files, "nothing_to_clean", NoCounts, FALSE)
  ELSE LET cutoff == clock - hours
           to_remove == {id \in DOMAIN st.file.data :
                           /\ ~st.file.data[id].confirmed
                           /\ st.file.data[id].timestamp <= cutoff}
           left == Without(st.file.data, to_remove)
       IN  StoreResult(
             [exists |-> TRUE, data |-> left],
             FilesAfter(st.files, st.file.data, to_remove, rm_fail),
             "expired_done",
             Counts(Cardinality(to_remove),
                    Cardinality(Deleted(st.files, st.file.data, to_remove,
                                        rm_fail)),
                    Cardinality(DOMAIN left)),
             TRUE)

\* cleanup_expired_downloads(hours)
cleanup_expired_downloads(st, hours, rm_fail) ==
  IF ~st.file.exists
    THEN StoreResult(st.file, st.files, "nothing_to_clean", NoCounts, FALSE)
  ELSE LET cutoff == clock - hours
           to_remove == {id \in DOMAIN st.file.data :
                           /\ ~st.file.data[id].confirmed
                           /\ st.file.data[id].timestamp < cutoff}
           left == Without(st.file.data, to_remove)
       IN  StoreResult(
             [exists |-> TRUE, data |-> left],
             FilesAfter(st.files, st.file.data, to_remove, rm_fail),
             "expired_done",
             Counts(Cardinality(to_remove),
                    Cardinality(Deleted(st.files, st.file.data, to_remove,
                                        rm_fail)),
                    Cardinality(DOMAIN left)),
             TRUE)

\* list_pending_downloads()
list_pending_downloads(st) ==
  IF ~st.file.exists \/ DOMAIN st.file.data = {}
    THEN StoreResult(st.file, st.files, "nothing_pending", NoCounts, FALSE)
    ELSE StoreResult(st.file, st.files, "pending_list",
                     Counts(NotReported, NotReported,
                            Cardinality(DOMAIN st.file.data)), FALSE)

\* handle_callback(callback): post_ok is whether answerCallbackQuery went
\* through; when it raises, the operation is not run
handle_callback(st, data, post_ok, rm_fail) ==
  IF ~post_ok THEN st
  ELSE IF startswith(data, DataConfirmPrefix)
    THEN confirm_download(st, SubSeq(data, Len(DataConfirmPrefix) + 1,
                                     Len(data)), rm_fail)
  ELSE IF data = DataCleanupConfirmed
    THEN cleanup_confirmed_downloads(st, rm_fail)
  ELSE IF data = DataCleanupExpired
    THEN cleanup_expired_downloads(st, ExpiryHours, rm_fail)
  ELSE st

\* handle_download_commands: what one text message of the operator does
handle_command(st, text, rm_fail) ==
  IF ~startswith(text, Slash) THEN st
  ELSE IF text = CmdDownloads \/ text = CmdList
    THEN list_pending_downloads(st)
  ELSE IF startswith(text, CmdConfirmPrefix)
    THEN IF Len(words(text)) = 2
           THEN confirm_download(st, words(text)[2], rm_fail)
           ELSE StoreResult(st.file, st.files, "usage", NoCounts, FALSE)
  ELSE IF text = CmdCleanup THEN cleanup_confirmed_downloads(st, rm_fail)
  ELSE IF text = CmdHelp THEN StoreResult(st.file, st.files, "help", NoCounts, FALSE)
  ELSE st

\* --------------------------------------------- manage_downloads.py (CLI)

\* DownloadManager.load_pending: {} when the file does not exist
load_pending(file) == IF file.exists THEN file.data ELSE << >>

\* Mutant: only the entries still in the file are written back
save_pendingMutant(data) ==
  [exists |-> TRUE,
   data |-> [id \in DOMAIN data \cap
                     (IF pending_file.exists THEN DOMAIN pending_file.data
                      ELSE {}) |-> data[id]]]

\* DownloadManager.save_pending
save_pending(data) == [exists |-> TRUE, data |-> data]

\* DownloadManager.list_pending
list_pending(st) ==
  LET pending == load_pending(st.file)
  IN  IF DOMAIN pending = {}
        THEN StoreResult(st.file, st.files, "nothing_pending", NoCounts, FALSE)
        ELSE StoreResult(st.file, st.files, "pending_list",
                         Counts(NotReported, NotReported,
                                Cardinality(DOMAIN pending)), FALSE)

\* DownloadManager.cleanup_confirmed
cleanup_confirmed(st, rm_fail) ==
  LET pending == load_pending(st.file)
      to_remove == {id \in DOMAIN pending : pending[id].confirmed}
      left == Without(pending, to_remove)
  IN  StoreResult(save_pending(left),
                  FilesAfter(st.files, pending, to_remove, rm_fail),
                  "cleanup_done",
                  Counts(Cardinality(to_remove), NotReported,
                         Cardinality(DOMAIN left)),
                  TRUE)

\* Mutant: a confirmed entry older than `hours` is expired too
cleanup_expiredMutant(st, hours, rm_fail) ==
  LET pending == load_pending(st.file)
      cutoff == clock - hours
      to_remove == {id \in DOMAIN pending : pending[id].timestamp < cutoff}
      left == Without(pending, to_remove)
  IN  StoreResult(save_pending(left),
                  FilesAfter(st.files, pending, to_remove, rm_fail),
                  "expired_done",
                  Counts(Cardinality(to_remove), NotReported,
                         Cardinality(DOMAIN left)),
                  TRUE)

\* DownloadManager.cleanup_expired(hours)
cleanup_expired(st, hours, rm_fail) ==
  LET pending == load_pending(st.file)
      cutoff == clock - hours
      to_remove == {id \in DOMAIN pending :
                      /\ ~pending[id].confirmed
                      /\ pending[id].timestamp < cutoff}
      left == Without(pending, to_remove)
  IN  StoreResult(save_pending(left),
                  FilesAfter(st.files, pending, to_remove, rm_fail),
                  "expired_done",
                  Counts(Cardinality(to_remove), NotReported,
                         Cardinality(DOMAIN left)),
                  TRUE)

\* DownloadManager.confirm_download(video_id)
manager_confirm_download(st, video_id, rm_fail) ==
  LET pending == load_pending(st.file)
  IN  IF video_id \notin DOMAIN pending
        THEN StoreResult(st.file, st.files, "invalid_id", NoCounts, FALSE)
        ELSE StoreResult(
               save_pending(Without(pending, {video_id})),
               FilesAfter(st.files, pending, {video_id}, rm_fail),
               IF pending[video_id].video_path \notin st.files
                 THEN "file_already_gone"
               ELSE IF pending[video_id].video_path \in rm_fail
                 THEN "remove_error"
               ELSE "confirmed",
               NoCounts, TRUE)

ArgList    == << "l","i","s","t" >>
ArgCleanup == << "c","l","e","a","n","u","p" >>
ArgExpired == << "e","x","p","i","r","e","d" >>
ArgConfirm == << "c","o","n","f","i","r","m" >>

\* main of manage_downloads.py; argv is sys.argv[1:]. What it only prints
\* is no message to the operator
manage_main(st, argv, rm_fail) ==
  LET nothing == StoreResult(st.file, st.files, st.sent, st.counts, FALSE)
  IN  IF Len(argv) < 1 THEN nothing
      ELSE IF lower(argv[1]) = ArgList THEN list_pending(st)
      ELSE IF lower(argv[1]) = ArgCleanup
        THEN cleanup_confirmed(st, rm_fail)
      ELSE IF lower(argv[1]) = ArgExpired
        THEN cleanup_expired(st, ExpiryHours, rm_fail)
      ELSE IF lower(argv[1]) = ArgConfirm /\ Len(argv) = 2
        THEN manager_confirm_download(st, argv[2], rm_fail)
      ELSE nothing

\* The paths of the video files
VideoPaths == {"videos/v1.mp4", "videos/v2.mp4"}

\* How the calls made for one update may end: answerCallbackQuery goes
\* through or raises, os.remove raises on the paths of rm_fail
RouterFates == [post_ok : BOOLEAN, rm_fail : SUBSET VideoPaths]

\* handle_download_commands' loop over the batch, from its i-th update on
RECURSIVE RouterBatch(_, _, _, _)
RouterBatch(batch, fate, i, st) ==
  IF i > Len(batch) THEN st
  ELSE
    LET u  == batch[i]
        s1 == [st EXCEPT !.offset = NextOffset(u),
                         !.seen = Append(st.seen, u.update_id)]
        Store(s, r) == [s EXCEPT !.file = r.file, !.files = r.files,
                                 !.sent = r.sent, !.counts = r.counts]
    IN  IF u.kind = "callback_query"
          THEN RouterBatch(batch, fate, i + 1,
                 Store(s1, handle_callback(s1, u.data, fate[i].post_ok,
                                           fate[i].rm_fail)))
        ELSE IF ~IsOperatorMessage(u) THEN RouterBatch(batch, fate, i + 1, s1)
        ELSE RouterBatch(batch, fate, i + 1,
               Store(s1, handle_command(s1, strip(u.text), fate[i].rm_fail)))

\* handle_download_commands(), called while the production runs
HandleDownloadCommands(ok, fate) ==
  /\ pc = "production"
  /\ IF ~ok
       THEN UNCHANGED << update_offset, updates, seen, last_sent, pending_file,
                         video_files, last_counts >>
       ELSE LET batch == getUpdates(update_offset)
                r == RouterBatch(batch, fate, 1,
                       [offset |-> update_offset, seen |-> seen,
                        file |-> pending_file, files |-> video_files,
                        sent |-> last_sent, counts |-> last_counts])
            IN  /\ updates' = batch
                /\ update_offset' = r.offset
                /\ seen' = r.seen
                /\ last_sent' = r.sent
                /\ last_counts' = r.counts
                /\ pending_file' = r.file
                /\ video_files' = r.files
  /\ UNCHANGED << pc, step, polled, cancelled, cancel_flag_file, titulo,
                  descricao, tags, roteiro_partes, production_files, retval,
                  exit_status, prompts, next_update_id, outcome,
                  cancel_evaluated, script_log, last_check, script_via,
                  tags_text, clock, otherVars, backlog >>
  /\ stale_ids' = Left(stale_ids, update_offset')

\* ----------------------------------------------------- script comparison
\* The Script step run twice on its own: once on text events closed by a
\* finish sentinel, once on one .txt document.

\* Texts per comparison.
MaxFragments == 3

TextLines == << " ","a","\n","b" >>
TextOk    == << "o","k" >>

\* The texts an operator sends as parts of a script
FragmentTexts == {TextHi, TextTags, TextLines, TextOk}

\* The intake variables before a run, the store as Init has it
IntakeIdle ==
  /\ step = Unset
  /\ polled = FALSE
  /\ update_offset = 0
  /\ cancelled = FALSE
  /\ cancel_flag_file = NoFile
  /\ titulo = None
  /\ descricao = None
  /\ tags_text = None
  /\ tags = << >>
  /\ roteiro_partes = << >>
  /\ production_files = << >>
  /\ retval = Unset
  /\ exit_status = << >>
  /\ prompts = << >>
  /\ last_sent = "nothing"
  /\ updates = << >>
  /\ next_update_id = 1
  /\ outcome = "running"
  /\ seen = << >>
  /\ cancel_evaluated = FALSE
  /\ script_log = << >>
  /\ last_check = NoCheck
  /\ script_via = "none"

InitAggregation ==
  /\ TimeIdle
  /\ stale_ids = {}
  /\ backlog = {}
  /\ pc = "comparison"
  /\ IntakeIdle
  /\ pending_file = [exists |-> FALSE, data |-> << >>]
  /\ video_files = {}
  /\ clock = 0
  /\ last_counts = [removed |-> 0 - 1, deleted |-> 0 - 1, pending |-> 0 - 1]
  /\ frag_texts \in UNION { [1..n -> FragmentTexts] : n \in 1..MaxFragments }
  /\ script_by_texts = NoRun
  /\ script_by_document = NoRun
  /\ last_request = NoRequest
  /\ RaceIdle

\* collect_script_multipart as entered: cursor 0, no fragment yet
ScriptEntry == [offset |-> 0, seen |-> << >>, partes |-> << >>,
                sent |-> "prompt"]

\* The batch as collect_script_multipart gets it: each update with its id
Numbered(batch) == [i \in 1..Len(batch) |-> WithId(batch[i], i)]

\* collect_script_multipart on the texts of frag_texts and a finish sentinel
FromTexts ==
  /\ pc = "comparison"
  /\ script_by_texts = NoRun
  /\ LET batch == Numbered(
                    [i \in 1..Len(frag_texts) |->
                       TextMessage(TELEGRAM_CHAT_ID, frag_texts[i])]
                    \o << TextMessage(TELEGRAM_CHAT_ID, TextPronto) >>)
         r == ScriptBatch(batch, [i \in 1..Len(batch) |-> "ok"], 1,
                          ScriptEntry)
     IN  script_by_texts' = [status |-> r.status, roteiro |-> r.roteiro]
  /\ UNCHANGED << pc, step, polled, update_offset, cancelled,
                  cancel_flag_file, titulo, descricao, tags_text, tags,
                  roteiro_partes, production_files, retval, exit_status,
                  prompts, last_sent, updates, next_update_id, outcome, seen,
                  cancel_evaluated, script_log, last_check, script_via,
                  storeVars, frag_texts, script_by_document, last_request,
                  raceVars, timeVars, histVars,
                  summaryVars >>

\* collect_script_multipart on one .txt document whose content is `content`
FromDocument(content) ==
  /\ pc = "comparison"
  /\ script_by_document = NoRun
  /\ LET batch == Numbered(
                    << DocumentMessage(TELEGRAM_CHAT_ID, FileTxt, content) >>)
         r == ScriptBatch(batch, [i \in 1..Len(batch) |-> "ok"], 1,
                          ScriptEntry)
     IN  script_by_document' = [status |-> r.status, roteiro |-> r.roteiro]
  /\ UNCHANGED << pc, step, polled, update_offset, cancelled,
                  cancel_flag_file, titulo, descricao, tags_text, tags,
                  roteiro_partes, production_files, retval, exit_status,
                  prompts, last_sent, updates, next_update_id, outcome, seen,
                  cancel_evaluated, script_log, last_check, script_via,
                  storeVars, frag_texts, script_by_texts, last_request,
                  raceVars, timeVars, histVars,
                  summaryVars >>

\* The fragments the texts of frag_texts are: each text as Telegram hands
\* it over, without the white space around it
Fragments == [i \in 1..Len(frag_texts) |-> strip(frag_texts[i])]

NextAggregation ==
  \/ FromTexts
  \/ FromDocument(join(Fragments))

SpecAggregation == InitAggregation /\ [][NextAggregation]_vars

\* ------------------------------------------------------------ store runs
\* The download management on its own: requests of the chat, each handled
\* by handle_download_commands as a batch of one update, and invocations of
\* manage_downloads.py, on every store of up to two entries.

\* Requests per run.
MaxCalls == 2

\* datetime.now() of the store runs, in hours
StoreNow == 25

\* Entry timestamps: older than ExpiryHours, exactly that old, younger
Timestamps == {StoreNow - ExpiryHours - 1, StoreNow - ExpiryHours,
               StoreNow - ExpiryHours + 1}

\* The path of the video of an entry
PathOf(id) == IF id = V1 THEN "videos/v1.mp4" ELSE "videos/v2.mp4"

\* The entries a store starts with: unconfirmed of each age, and confirmed
\* ones of the age at which an unconfirmed one expires
EntryKinds ==
  [confirmed : {FALSE}, timestamp : Timestamps]
    \cup [confirmed : {TRUE}, timestamp : {StoreNow - ExpiryHours - 1}]

\* The mappings pending_downloads.json may hold
Mappings ==
  UNION { [ids -> EntryKinds] : ids \in SUBSET {V1, V2} }

InitStore ==
  /\ TimeIdle
  /\ stale_ids = {}
  /\ backlog = {}
  /\ pc = "store"
  /\ IntakeIdle
  /\ AggIdle
  /\ RaceIdle
  /\ last_request = NoRequest
  /\ clock = StoreNow
  /\ last_counts = NoCounts
  /\ video_files \in SUBSET VideoPaths
  /\ \/ pending_file = [exists |-> FALSE, data |-> << >>]
     \/ \E m \in Mappings :
          pending_file =
            [exists |-> TRUE,
             data |-> [id \in DOMAIN m |->
                         [confirmed |-> m[id].confirmed,
                          timestamp |-> m[id].timestamp,
                          video_path |-> PathOf(id)]]]

\* The updates of the store runs
StoreUpdates ==
  { TextMessage(TELEGRAM_CHAT_ID, CmdConfirmPrefix \o V1),
    TextMessage(TELEGRAM_CHAT_ID, << "/","c","o","n","f","i","r","m" >>),
    TextMessage(TELEGRAM_CHAT_ID, CmdConfirmPrefix \o V1 \o << " " >> \o V2),
    TextMessage(TELEGRAM_CHAT_ID, CmdCleanup),
    TextMessage(TELEGRAM_CHAT_ID, << " " >> \o CmdList),
    TextMessage(OtherChat, CmdCleanup),
    CallbackQuery(TELEGRAM_CHAT_ID, DataConfirmPrefix \o V2),
    CallbackQuery(TELEGRAM_CHAT_ID, DataCleanupConfirmed),
    CallbackQuery(TELEGRAM_CHAT_ID, DataCleanupExpired),
    CallbackQuery(OtherChat, DataCleanupConfirmed) }

\* The argument lists manage_downloads.py is run with
StoreArgvs ==
  { << >>,
    << ArgList >>,
    << << "C","l","e","a","n","u","p" >> >>,
    << ArgExpired >>,
    << ArgConfirm, V1 >>,
    << ArgConfirm >>,
    << ArgConfirm, V1, V2 >> }

\* History only: the mapping a pending file stands for
MappingOf(file) == IF file.exists THEN file.data ELSE << >>

\* History only: the ids request r asks to confirm (one or none)
ConfirmIds(r) ==
  IF r.via = "chat" /\ r.update.kind = "message"
    THEN IF /\ r.update.chat = TELEGRAM_CHAT_ID
            /\ Len(words(r.update.text)) = 2
            /\ words(r.update.text)[1] = << "/","c","o","n","f","i","r","m" >>
           THEN {words(r.update.text)[2]} ELSE {}
  ELSE IF r.via = "chat" /\ r.update.kind = "callback_query"
    THEN IF /\ r.post_ok
            /\ Len(r.update.data) >= 8
            /\ SubSeq(r.update.data, 1, 8) = << "c","o","n","f","i","r","m",":" >>
           THEN {SubSeq(r.update.data, 9, Len(r.update.data))} ELSE {}
  ELSE IF r.via = "cli"
    THEN IF Len(r.argv) = 2 /\ lower(r.argv[1]) = ArgConfirm
           THEN {r.argv[2]} ELSE {}
  ELSE {}

\* History only: request r asks to clean the confirmed entries up
IsCleanupConfirmed(r) ==
  \/ /\ r.via = "chat" /\ r.update.kind = "message"
     /\ r.update.chat = TELEGRAM_CHAT_ID
     /\ strip(r.update.text) = << "/","c","l","e","a","n","u","p" >>
  \/ /\ r.via = "chat" /\ r.update.kind = "callback_query"
     /\ r.post_ok
     /\ r.update.data = DataCleanupConfirmed
  \/ /\ r.via = "cli" /\ Len(r.argv) >= 1
     /\ lower(r.argv[1]) = << "c","l","e","a","n","u","p" >>

\* History only: request r asks to clean the expired entries up
IsCleanupExpired(r) ==
  \/ /\ r.via = "chat" /\ r.update.kind = "callback_query"
     /\ r.post_ok
     /\ r.update.data = DataCleanupExpired
  \/ /\ r.via = "cli" /\ Len(r.argv) >= 1
     /\ lower(r.argv[1]) = << "e","x","p","i","r","e","d" >>

\* handle_download_commands on a batch that holds the one update p
ChatRequest(p, fate) ==
  /\ pc = "store"
  /\ last_request.n < MaxCalls
  /\ LET u == WithId(p, next_update_id)
         r == RouterBatch(<< u >>, << fate >>, 1,
                [offset |-> update_offset, seen |-> seen,
                 file |-> pending_file, files |-> video_files,
                 sent |-> last_sent, counts |-> last_counts])
     IN  /\ updates' = << u >>
         /\ next_update_id' = next_update_id + 1
         /\ update_offset' = r.offset
         /\ seen' = r.seen
         /\ last_sent' = r.sent
         /\ last_counts' = r.counts
         /\ pending_file' = r.file
         /\ video_files' = r.files
  /\ last_request' = [n |-> last_request.n + 1, via |-> "chat", update |-> p,
                      argv |-> << >>, post_ok |-> fate.post_ok,
                      rm_fail |-> fate.rm_fail,
                      again |-> /\ last_request.via = "chat"
                                /\ last_request.update = p
                                /\ last_request.post_ok
                                /\ fate.post_ok]
  /\ UNCHANGED << pc, step, polled, cancelled, cancel_flag_file, titulo,
                  descricao, tags_text, tags, roteiro_partes,
                  production_files, retval, exit_status, prompts, outcome,
                  cancel_evaluated, script_log, last_check, script_via,
                  clock, aggVars, raceVars, timeVars, histVars,
                  summaryVars >>

\* python manage_downloads.py argv
ManageRequest(argv, rm_fail) ==
  /\ pc = "store"
  /\ last_request.n < MaxCalls
  /\ LET r == manage_main([file |-> pending_file, files |-> video_files,
                           sent |-> last_sent, counts |-> last_counts],
                          argv, rm_fail)
     IN  /\ last_sent' = r.sent
         /\ last_counts' = r.counts
         /\ pending_file' = r.file
         /\ video_files' = r.files
  /\ last_request' = [n |-> last_request.n + 1, via |-> "cli",
                      update |-> NoRequest.update, argv |-> argv,
                      post_ok |-> TRUE, rm_fail |-> rm_fail,
                      again |-> /\ last_request.via = "cli"
                                /\ last_request.argv = argv]
  /\ UNCHANGED << pc, step, polled, update_offset, cancelled,
                  cancel_flag_file, titulo, descricao, tags_text, tags,
                  roteiro_partes, production_files, retval, exit_status,
                  prompts, updates, next_update_id, outcome, seen,
                  cancel_evaluated, script_log, last_check, script_via,
                  clock, aggVars, raceVars, timeVars, histVars,
                  summaryVars >>

\* The paths os.remove may be called on: the files that exist and belong
\* to an entry of the mapping
LivePaths ==
  video_files \cap {MappingOf(pending_file)[id].video_path :
                      id \in DOMAIN MappingOf(pending_file)}

\* The fates that differ for update p: answerCallbackQuery is called for a
\* callback query only, os.remove on the paths of LivePaths only
StoreFates(p) ==
  {f \in RouterFates : /\ f.rm_fail \subseteq LivePaths
                       /\ p.kind = "message" => f.post_ok}

NextStore ==
  \/ \E p \in StoreUpdates : \E fate \in StoreFates(p) : ChatRequest(p, fate)
  \/ \E argv \in StoreArgvs : \E rm_fail \in SUBSET LivePaths :
       ManageRequest(argv, rm_fail)

SpecStore == InitStore /\ [][NextStore]_vars

\* ----------------------------------------------------------- store races
\* Two invocations of manage_downloads.py at the same time: each loads the
\* pending file when it starts and writes it whole when it ends; nothing
\* locks the file in between.

\* The argument lists of the racing invocations
RaceArgvs == { << ArgCleanup >>, << ArgExpired >>, << ArgConfirm, V1 >>,
               << ArgList >> }

InitRace ==
  /\ TimeIdle
  /\ stale_ids = {}
  /\ backlog = {}
  /\ pc = "race"
  /\ IntakeIdle
  /\ AggIdle
  /\ RaceIdle
  /\ last_request = NoRequest
  /\ clock = StoreNow
  /\ last_counts = NoCounts
  /\ video_files = VideoPaths
  /\ \/ pending_file = [exists |-> FALSE, data |-> << >>]
     \/ \E m \in Mappings :
          pending_file =
            [exists |-> TRUE,
             data |-> [id \in DOMAIN m |->
                         [confirmed |-> m[id].confirmed,
                          timestamp |-> m[id].timestamp,
                          video_path |-> PathOf(id)]]]

\* Invocation p starts: load_pending() at the top of its operation
Load(p, argv) ==
  /\ pc = "race"
  /\ ~loaded[p].busy
  /\ last_request.n + Cardinality({q \in Procs : loaded[q].busy}) < MaxCalls
  /\ loaded' = [loaded EXCEPT ![p] = [busy |-> TRUE, argv |-> argv,
                                      file |-> pending_file]]
  /\ UNCHANGED << pc, step, polled, update_offset, cancelled,
                  cancel_flag_file, titulo, descricao, tags_text, tags,
                  roteiro_partes, production_files, retval, exit_status,
                  prompts, last_sent, updates, next_update_id, outcome, seen,
                  cancel_evaluated, script_log, last_check, script_via,
                  storeVars, aggVars, last_request, removed_ids, timeVars,
                  histVars, summaryVars >>

\* Invocation p ends: the rest of its operation, on what it loaded
Save(p) ==
  /\ pc = "race"
  /\ loaded[p].busy
  /\ LET r == manage_main([file |-> loaded[p].file, files |-> video_files,
                           sent |-> last_sent, counts |-> last_counts],
                          loaded[p].argv, {})
     IN  /\ last_sent' = r.sent
         /\ last_counts' = r.counts
         /\ video_files' = r.files
         /\ IF r.wrote
              THEN /\ pending_file' = r.file
                   /\ removed_ids' = removed_ids \cup (DOMAIN load_pending(loaded[p].file)
                                           \ DOMAIN r.file.data)
              ELSE UNCHANGED << pending_file, removed_ids >>
  /\ loaded' = [loaded EXCEPT ![p] = NotLoaded]
  /\ last_request' = [n |-> last_request.n + 1, via |-> "cli",
                      update |-> NoRequest.update, argv |-> loaded[p].argv,
                      post_ok |-> TRUE, rm_fail |-> {},
                      again |-> /\ last_request.via = "cli"
                                /\ last_request.argv = loaded[p].argv]
  /\ UNCHANGED << pc, step, polled, update_offset, cancelled,
                  cancel_flag_file, titulo, descricao, tags_text, tags,
                  roteiro_partes, production_files, retval, exit_status,
                  prompts, updates, next_update_id, outcome, seen,
                  cancel_evaluated, script_log, last_check, script_via,
                  clock, aggVars, timeVars, histVars,
                  summaryVars >>

NextRace ==
  \/ \E p \in Procs : \E argv \in RaceArgvs : Load(p, argv)
  \/ \E p \in Procs : Save(p)

SpecRace == InitRace /\ [][NextRace]_vars

\* ----------------------------------------------------------- timed waits
\* One call of wait_for_message with its clock: time.time() in whole
\* seconds, each network call taking one of the durations below.  The
\* long poll and the cancel check end on multiples of five seconds; a
\* send_message may take four seconds, which moves the iterations that follow
\* off those multiples.

\* Updates that may arrive during one timed wait.
MaxWaitEvents == 1
\* A short round trip of the long poll, in seconds
MinTrip == 5

\* wait_for_message(timeout=600), as collect_video_info calls it
StepTimeout == 600
\* check_cancel_interval=5
CheckCancelInterval == 5
\* int(elapsed) // 120
ReminderPeriod == 120
\* requests' timeout of check_for_cancel, send_message and the long poll
CheckTimeout == 5
SendTimeout == 10
PollTimeout == 15
\* 'timeout': 10 of the long poll
LongPoll == 10
\* time.sleep(3) after an answer that is not ok, time.sleep(5) after an
\* exception
SleepNotOk == 3
SleepError == 5

\* How long check_for_cancel's request and a send_message may take
CheckDurations == {0, CheckTimeout}
SendDurations == {0, MinTrip - 1, SendTimeout}

\* Mutant: a clock that stands still, every long poll answering at once
PollEndsMutant == {[result |-> "ok", took |-> 0]}

\* How a long poll may end, and how long it took
PollEnds ==
  { [result |-> "ok", took |-> MinTrip],
    [result |-> "ok", took |-> LongPoll],
    [result |-> "not_ok", took |-> MinTrip - SleepNotOk],
    [result |-> "error", took |-> MinTrip],
    [result |-> "error", took |-> PollTimeout] }

\* The updates of a timed wait
TimedEvents ==
  { TextMessage(TELEGRAM_CHAT_ID, TextTags),
    TextMessage(TELEGRAM_CHAT_ID, TextCancel),
    TextMessage(OtherChat, TextCancel) }

\* Mutant: a reminder is due in every iteration after the first period
ReminderDueMutant(elapsed, last) == elapsed \div ReminderPeriod > 0

\* if int(elapsed) // 120 > last_reminder
ReminderDue(elapsed, last) == elapsed \div ReminderPeriod > last

InitWait ==
  /\ pc = "timed_top"
  /\ IntakeIdle
  /\ AggIdle
  /\ RaceIdle
  /\ TimeIdle
  /\ stale_ids = {}
  /\ backlog = {}
  /\ last_request = NoRequest
  /\ pending_file = [exists |-> FALSE, data |-> << >>]
  /\ video_files = {}
  /\ clock = 0
  /\ last_counts = NoCounts

\* Somebody sends the bot an update while the wait goes on
TimedArrive(p) ==
  /\ pc \in {"timed_top", "timed_poll"}
  /\ Len(updates) < MaxPending
  /\ next_update_id <= MaxWaitEvents
  /\ updates' = Append(updates, WithId(p, next_update_id))
  /\ next_update_id' = next_update_id + 1
  /\ UNCHANGED << pc, step, polled, update_offset, cancelled, cancel_flag_file,
                  titulo, descricao, tags_text, tags, roteiro_partes,
                  production_files, retval, exit_status, prompts, last_sent,
                  outcome, seen, cancel_evaluated, script_log, last_check,
                  script_via, storeVars, auxVars >>

\* wait_for_message: the loop test and, when it holds, the cancel check and
\* the reminder of this iteration.  ok: check_for_cancel's request went
\* through; dc, dr: how long that request and the reminder's send took
TimedTop(ok, dc, dr) ==
  /\ pc = "timed_top"
  /\ IF ~(now - start_time < StepTimeout)
       THEN /\ retval' = "None"
            /\ outcome' = "timeout"
            /\ pc' = "timed_returned"
            /\ UNCHANGED << update_offset, cancelled, cancel_flag_file,
                            last_sent, updates, seen, cancel_evaluated,
                            last_check, timeVars >>
       ELSE
         LET elapsed == now - start_time
             due     == elapsed - last_cancel_check >= CheckCancelInterval
             batch   == getUpdates(update_offset)
             r       == CheckBatch(batch, 1, [offset |-> update_offset,
                                              seen |-> seen])
             checked == due /\ ok
             found   == checked /\ r.found
             remind  == ~found /\ ReminderDue(elapsed, last_reminder)
             sent_at == now + (IF due THEN dc ELSE 0)
         IN  /\ IF checked
                  THEN /\ updates' = batch
                       /\ update_offset' = r.offset
                       /\ seen' = r.seen
                       /\ cancel_evaluated' = (cancel_evaluated \/ r.found)
                       /\ last_check' =
                            [called |-> TRUE, batch |-> batch,
                             found |-> r.found, at |-> update_offset]
                  ELSE UNCHANGED << updates, update_offset, seen,
                                    cancel_evaluated, last_check >>
             /\ IF found
                  THEN /\ cancelled' = TRUE
                       /\ cancel_flag_file' = FlagCancelled
                       /\ last_sent' = "cancelled"
                       /\ retval' = "None"
                       /\ outcome' = "cancelled"
                       /\ pc' = "timed_returned"
                       /\ now' = sent_at + dr
                       /\ UNCHANGED << start_time, last_reminder,
                                       last_cancel_check, reminder_log >>
                  ELSE /\ pc' = "timed_poll"
                       /\ last_cancel_check' =
                            IF due THEN elapsed ELSE last_cancel_check
                       /\ last_reminder' =
                            IF remind THEN elapsed \div ReminderPeriod
                            ELSE last_reminder
                       /\ reminder_log' =
                            IF remind
                              THEN Append(reminder_log,
                                     (sent_at - start_time) \div ReminderPeriod)
                              ELSE reminder_log
                       /\ last_sent' = IF remind THEN "reminder" ELSE last_sent
                       /\ now' = sent_at + (IF remind THEN dr ELSE 0)
                       /\ UNCHANGED << cancelled, cancel_flag_file, retval,
                                       outcome, start_time >>
  /\ UNCHANGED << step, polled, titulo, descricao, tags_text, tags,
                  roteiro_partes, production_files, exit_status, prompts,
                  next_update_id, script_log, script_via, storeVars, aggVars,
                  last_request, raceVars, histVars, summaryVars >>

\* wait_for_message: the long poll of this iteration and the loop over its
\* batch; `end` is how the request ended and how long it took, dr how long
\* the send of the cancellation notice took
TimedPoll(end, dr) ==
  /\ pc = "timed_poll"
  /\ IF end.result = "ok"
       THEN LET batch == getUpdates(update_offset)
                r == WaitBatch(batch, 1, [offset |-> update_offset,
                                          seen |-> seen])
            IN  /\ updates' = batch
                /\ update_offset' = r.offset
                /\ seen' = r.seen
                /\ now' = now + end.took
                            + (IF r.status = "cancel" THEN dr ELSE 0)
                /\ cancel_evaluated' =
                     (cancel_evaluated \/ r.status = "cancel")
                /\ CASE r.status = "continue" ->
                          /\ pc' = "timed_top"
                          /\ UNCHANGED << cancelled, cancel_flag_file, titulo,
                                          retval, last_sent, outcome >>
                     [] r.status = "cancel" ->
                          /\ cancelled' = TRUE
                          /\ cancel_flag_file' = FlagCancelled
                          /\ last_sent' = "cancelled"
                          /\ retval' = "None"
                          /\ outcome' = "cancelled"
                          /\ pc' = "timed_returned"
                          /\ UNCHANGED titulo
                     [] r.status = "answer" ->
                          /\ titulo' = r.text
                          /\ retval' = "text"
                          /\ outcome' = "answered"
                          /\ pc' = "timed_returned"
                          /\ UNCHANGED << cancelled, cancel_flag_file,
                                          last_sent >>
       ELSE /\ now' = now + end.took
                      + (IF end.result = "not_ok" THEN SleepNotOk
                         ELSE SleepError)
            /\ pc' = "timed_top"
            /\ UNCHANGED << update_offset, cancelled, cancel_flag_file,
                            titulo, retval, last_sent, updates, outcome, seen,
                            cancel_evaluated >>
  /\ UNCHANGED << step, polled, descricao, tags_text, tags, roteiro_partes,
                  production_files, exit_status, prompts, next_update_id,
                  script_log, last_check, script_via, storeVars, aggVars,
                  last_request, raceVars, histVars, start_time, last_reminder,
                  last_cancel_check, reminder_log, summaryVars >>

NextWait ==
  \/ \E p \in TimedEvents : TimedArrive(p)
  \/ \E ok \in BOOLEAN : \E dc \in CheckDurations : \E dr \in SendDurations :
       TimedTop(ok, dc, dr)
  \/ \E end \in PollEnds : \E dr \in SendDurations : TimedPoll(end, dr)

SpecWait == InitWait /\ [][NextWait]_vars

\* The steps of the thread that runs wait_for_message.  Every call it blocks
\* on has a timeout (5, 10 and 15 seconds) and every sleep ends, so the
\* thread always takes its next step.
WaitStep ==
  \/ \E ok \in BOOLEAN : \E dc \in CheckDurations : \E dr \in SendDurations :
       TimedTop(ok, dc, dr)
  \/ \E end \in PollEnds : \E dr \in SendDurations : TimedPoll(end, dr)

SpecWaitFair == SpecWait /\ WF_vars(WaitStep)

\* --------------------------------------------------------------- summary
\* The statistics of the completion summary, on scripts of every length.

\* Words per script.
MaxWords == 160

\* tempo_estimado = palavra_count / 150
WordsPerMinute == 150

\* A script of n words
WordsText(n) ==
  IF n = 0 THEN << >>
  ELSE [i \in 1..(2 * n - 1) |-> IF i % 2 = 1 THEN "a" ELSE " "]

\* len(roteiro.split()): the runs of characters that are not white space
WordCount(roteiro) ==
  Cardinality({i \in 1..Len(roteiro) :
                 /\ roteiro[i] \notin Whitespace
                 /\ (i = 1 \/ roteiro[i - 1] \in Whitespace)})

\* int(tempo_estimado * 2), tempo_estimado being palavra_count / 150: the
\* whole part of 2 * palavra_count / 150
Segments(count) == (2 * count) \div WordsPerMinute

InitSummary ==
  /\ pc = "summary"
  /\ IntakeIdle
  /\ AggIdle
  /\ RaceIdle
  /\ now = 0
  /\ start_time = 0
  /\ last_reminder = 0
  /\ last_cancel_check = 0
  /\ reminder_log = << >>
  /\ stale_ids = {}
  /\ backlog = {}
  /\ last_request = NoRequest
  /\ pending_file = [exists |-> FALSE, data |-> << >>]
  /\ video_files = {}
  /\ clock = 0
  /\ last_counts = NoCounts
  /\ \E n \in 0..MaxWords : palavra_count = WordCount(WordsText(n))
  /\ segments = NotReported

\* collect_video_info: the statistics of the summary it sends
Summarise ==
  /\ pc = "summary"
  /\ segments' = Segments(palavra_count)
  /\ last_sent' = "script_received"
  /\ pc' = "summarised"
  /\ UNCHANGED << step, polled, update_offset, cancelled, cancel_flag_file,
                  titulo, descricao, tags_text, tags, roteiro_partes,
                  production_files, retval, exit_status, prompts, updates,
                  next_update_id, outcome, seen, cancel_evaluated, script_log,
                  last_check, script_via, storeVars, aggVars, last_request,
                  raceVars, timeVars, histVars, palavra_count >>

NextSummary == Summarise

SpecSummary == InitSummary /\ [][NextSummary]_vars

\* --------------------------------------------------------- specification

\* One retrieval outcome for each update of the batch a poll would fetch
Fates == [1..Len(getUpdates(update_offset)) -> Retrievals]

Next ==
  \/ \E p \in ConversationEvents \cup ProductionEvents : Arrive(p)
  \/ \E ok \in BOOLEAN : Construct(ok)
  \/ CollectStart
  \/ WaitTimeout
  \/ \E ok \in BOOLEAN : CheckForCancel(ok)
  \/ SkipCancelCheck
  \/ Remind
  \/ \E ok \in BOOLEAN : WaitPoll(ok)
  \/ ScriptTimeout
  \/ \E ok \in BOOLEAN : \E fate \in Fates : ScriptPoll(ok, fate)
  \/ MainAfterCollect
  \/ \E ok \in BOOLEAN :
       \E fate \in [1..Len(getUpdates(update_offset)) ->
                       {f \in RouterFates : f.rm_fail \subseteq LivePaths}] :
         HandleDownloadCommands(ok, fate)
  \/ \E result \in Productions : RunProduction(result)

Spec == Init /\ [][Next]_vars

\* ---------------------------------------------------------------- claims

\* C1: across the polls of check_for_cancel, wait_for_message,
\* collect_script_multipart and handle_download_commands the cursor never
\* decreases, every update a poll evaluates has an id at or above the cursor
\* the poll was made with, and no update is evaluated twice or out of order.
C1_CursorMonotonic ==
  [][ /\ update_offset' >= update_offset
      /\ Len(seen') >= Len(seen)
      /\ SubSeq(seen', 1, Len(seen)) = seen
      /\ \A i \in (Len(seen) + 1)..Len(seen') :
           /\ seen'[i] >= update_offset
           /\ seen'[i] < update_offset'
           /\ \A j \in 1..(i - 1) : seen'[j] < seen'[i] ]_vars

\* C1 witness: the waits, the Script step and the command handler have all
\* polled, and the handler has run a confirm command.
C1_Witness ==
  /\ pc = "production"
  /\ script_via = "finish"
  /\ last_sent = "confirmed"
  /\ Len(seen) >= 6

\* C2: the prompts sent are a prefix of Title, Description, Tags, Script, each
\* prompt after the first follows a non-empty answer to the step before it,
\* and the conversation is completed only in the Script step, after all four
\* prompts, with a non-empty script.
C2_StepOrder ==
  /\ Len(prompts) <= Len(Steps)
  /\ \A i \in 1..Len(prompts) : prompts[i] = Steps[i]
  /\ Len(prompts) >= 2 => titulo # None /\ titulo # << >>
  /\ Len(prompts) >= 3 => descricao # None /\ descricao # << >>
  /\ Len(prompts) >= 4 => tags_text # None /\ tags_text # << >>
  /\ outcome = "completed" =>
       /\ prompts = Steps
       /\ step = "script"
       /\ Len(production_files) = 1
       /\ production_files[1].script # << >>

\* C2 witness: a conversation completed after the four prompts.
C2_Witness ==
  /\ outcome = "completed"
  /\ prompts = Steps
  /\ script_via = "finish"

\* C3: once a handler has evaluated a cancel directive of the operator, the
\* conversation has ended as cancelled with no production record, and from
\* then on no prompt is sent, no answer or fragment is stored and no record
\* is written.
C3_CancelAbsorbing ==
  [][ /\ cancel_evaluated' =>
           /\ outcome' = "cancelled"
           /\ pc' \in {"returned", "exit"}
           /\ retval' = "None"
           /\ production_files' = << >>
      /\ cancel_evaluated =>
           UNCHANGED << prompts, step, titulo, descricao, tags_text, tags,
                        roteiro_partes, production_files, outcome >> ]_vars

\* C3 witness: a conversation cancelled in the Script step, main returned.
C3_Witness ==
  /\ cancel_evaluated
  /\ outcome = "cancelled"
  /\ step = "script"
  /\ roteiro_partes # << >>
  /\ pc = "exit"

\* C4 (as claimed): whenever the conversation has ended by cancellation, the
\* cancel-marker file exists with cancelled=true.
C4_CancelMarkerPersisted ==
  outcome = "cancelled" => cancel_flag_file = FlagCancelled

\* C5 (as claimed): a cancelled conversation is told apart from one that timed
\* out and from a failure: collect_video_info does not return the None it
\* returns on a timeout, and main does not return the status it returns on a
\* timeout or on an unhandled exception (1).
C5_CancelDistinguishable ==
  (pc = "exit" /\ outcome = "cancelled") =>
     /\ retval # "None"
     /\ exit_status # << StatusWithoutData >>
     /\ exit_status # << ProductionStatus("Exception") >>

C7_RecordComplete ==
  /\ Len(production_files) <= 1
  /\ \A i \in 1..Len(production_files) :
       /\ production_files[i].title \notin {None, << >>}
       /\ production_files[i].description \notin {None, << >>}
       /\ production_files[i].tags # << >>
       /\ \A k \in 1..Len(production_files[i].tags) :
            production_files[i].tags[k] # << >>
       /\ production_files[i].script # << >>
       /\ production_files[i].status = "collected"

\* C8 (as claimed): the tag list parsed from the Tags answer holds no empty
\* string.
C8_NoEmptyTag ==
  \A k \in 1..Len(tags) : tags[k] # << >>

C10_FragmentsInOrder ==
  /\ roteiro_partes = script_log
  /\ script_via = "finish" =>
       /\ script_log # << >>
       /\ outcome = "completed"
       /\ production_files[Len(production_files)].script = join(script_log)

\* C10 witness: two different fragments and then a finish sentinel.
C10_Witness ==
  /\ script_via = "finish"
  /\ Len(script_log) = 2
  /\ script_log[1] # script_log[2]
  /\ production_files[1].script =
       script_log[1] \o << "\n" >> \o script_log[2]

\* C11: when the Script step, holding no fragment, evaluates updates of which
\* the operator's are finish sentinels only, the step does not end: the
\* operator is told that nothing was sent yet, the fragment list stays
\* empty, nothing is returned or recorded, and the step keeps polling.
C11_EmptyFinishRejected ==
  [][ LET ev == SelectSeq(updates,
                  LAMBDA u : /\ u.update_id >= update_offset
                             /\ u.update_id < update_offset')
      IN  ( /\ pc = "script"
            /\ roteiro_partes = << >>
            /\ \E i \in 1..Len(ev) : IsFinishEvent(ev[i])
            /\ \A i \in 1..Len(ev) :
                 IsOperatorMessage(ev[i]) => IsFinishEvent(ev[i]) )
          => /\ pc' = "script"
             /\ roteiro_partes' = << >>
             /\ last_sent' = "nothing_sent_yet"
             /\ outcome' = "running"
             /\ retval' = retval
             /\ script_via' = "none"
             /\ production_files' = << >> ]_vars

\* C11 witness: a finish sentinel was turned down and the step goes on.
C11_Witness ==
  /\ pc = "script"
  /\ last_sent = "nothing_sent_yet"
  /\ roteiro_partes = << >>
  /\ outcome = "running"

\* C12: the Script step ends by a document only at a .txt document of the
\* operator, at once (no later update of the batch is consumed), and the
\* script recorded is the document's content as it is, whatever fragments
\* were collected before; a retrieved body that is empty gives no record.
C12_DocumentVerbatim ==
  [][ (pc = "script" /\ script_via' = "document") =>
        LET ev == SelectSeq(updates,
                    LAMBDA u : /\ u.update_id >= update_offset
                               /\ u.update_id < update_offset')
            doc == ev[Len(ev)]
        IN  /\ ev # << >>
            /\ IsOperatorMessage(doc)
            /\ doc.has_doc
            /\ endswith(doc.file_name, TxtSuffix)
            /\ pc' = "returned"
            /\ outcome' \in {"completed", "empty_document"}
            /\ outcome' = "completed" =>
                 /\ Len(production_files') = 1
                 /\ production_files'[1].script = doc.content
            /\ outcome' = "empty_document" => production_files' = << >> ]_vars

\* C12 witness: a document ended the step after a fragment was collected,
\* and the script is the document alone.
C12_Witness ==
  /\ script_via = "document"
  /\ outcome = "completed"
  /\ roteiro_partes # << >>
  /\ production_files[1].script = DocContent

\* C13: for every non-empty list of fragments, the Script step fed the
\* fragments as text events and then a finish sentinel returns the script
\* that it returns when fed one .txt document holding the fragments joined
\* by newline.
C13_AggregationEquivalence ==
  (script_by_texts # NoRun /\ script_by_document # NoRun) =>
     /\ script_by_texts.status = "finish"
     /\ script_by_document.status = "document"
     /\ script_by_texts.roteiro = script_by_document.roteiro
     /\ script_by_texts.roteiro = join(Fragments)

\* C13 witness: both runs made on three fragments, not all the same.
C13_Witness ==
  /\ script_by_texts # NoRun
  /\ script_by_document # NoRun
  /\ Len(frag_texts) = 3
  /\ frag_texts[1] # frag_texts[2]
  /\ script_by_texts.roteiro = script_by_document.roteiro

\* C14: a confirm request for an id that is not in the mapping answers
\* "not found" and leaves the pending file and the video files as they were;
\* for an id that is in it, it removes that entry alone, whether or not its
\* video file exists or can be deleted, and touches no other video file; a
\* confirm of the same id right after a confirm is "not found".
C14_ConfirmNotFound ==
  [][ last_request'.n # last_request.n =>
        \A id \in ConfirmIds(last_request') :
          LET before == MappingOf(pending_file)
              after  == MappingOf(pending_file')
          IN  /\ id \notin DOMAIN before =>
                   /\ pending_file' = pending_file
                   /\ video_files' = video_files
                   /\ last_sent' \in {"invalid_id", "nothing_pending"}
              /\ id \in DOMAIN before =>
                   /\ DOMAIN after = DOMAIN before \ {id}
                   /\ \A other \in DOMAIN after : after[other] = before[other]
                   /\ video_files' \subseteq video_files
                   /\ video_files \ video_files' \subseteq
                        {before[id].video_path}
                   /\ last_sent' \notin {"invalid_id", "nothing_pending"}
              /\ id \in ConfirmIds(last_request) =>
                   /\ pending_file' = pending_file
                   /\ last_sent' \in {"invalid_id", "nothing_pending"} ]_vars

\* C14 witness: a second confirm of an id found nothing, the other entry is
\* still there, and the video of the confirmed id had been missing.
C14_Witness ==
  /\ last_request.n = 2
  /\ ConfirmIds(last_request) = {V1}
  /\ last_sent = "invalid_id"
  /\ pending_file.exists
  /\ DOMAIN pending_file.data = {V2}
  /\ PathOf(V1) \notin video_files

\* C15: a clean-up of the expired entries removes an entry if and only if
\* it is not confirmed and is more than 24 hours old; an unconfirmed entry
\* exactly 24 hours old and every confirmed entry stay, unchanged.
C15_ExpiryStrict ==
  [][ (last_request'.n # last_request.n /\ IsCleanupExpired(last_request')) =>
        LET before == MappingOf(pending_file)
            after  == MappingOf(pending_file')
        IN  /\ DOMAIN after \subseteq DOMAIN before
            /\ \A id \in DOMAIN before :
                 /\ id \notin DOMAIN after <=>
                      /\ ~before[id].confirmed
                      /\ clock - before[id].timestamp > ExpiryHours
                 /\ id \in DOMAIN after => after[id] = before[id] ]_vars

\* C15 witness: a clean-up removed an expired entry and kept an unconfirmed
\* one that is exactly 24 hours old.
C15_Witness ==
  /\ IsCleanupExpired(last_request)
  /\ last_counts.removed = 1
  /\ pending_file.exists
  /\ DOMAIN pending_file.data = {V1}
  /\ ~pending_file.data[V1].confirmed
  /\ clock - pending_file.data[V1].timestamp = ExpiryHours

\* C16: a clean-up of the confirmed entries leaves in the mapping exactly
\* the unconfirmed entries, each unchanged; it does so whichever video files
\* cannot be deleted, deletes the files of confirmed entries that can be and
\* no other file, and the count of files deleted it reports is not above
\* the count of entries removed it reports.
C16_CleanupConfirmedFrame ==
  [][ (last_request'.n # last_request.n /\ IsCleanupConfirmed(last_request')) =>
        LET before == MappingOf(pending_file)
            after  == MappingOf(pending_file')
            confirmed == {id \in DOMAIN before : before[id].confirmed}
            failing == last_request'.rm_fail
        IN  /\ DOMAIN after = DOMAIN before \ confirmed
            /\ \A id \in DOMAIN after : after[id] = before[id]
            /\ video_files' \subseteq video_files
            /\ video_files \ video_files' =
                 {before[id].video_path : id \in confirmed}
                   \cap (video_files \ failing)
            /\ last_counts'.deleted <= last_counts'.removed
            /\ last_counts'.removed \in {NotReported, Cardinality(confirmed)}
            /\ last_counts'.deleted \in
                 {NotReported,
                  Cardinality({id \in confirmed :
                     before[id].video_path \in video_files \ failing})}
            /\ last_sent' \in {"cleanup_done", "nothing_to_clean"}
            /\ last_sent' = "cleanup_done" =>
                 last_counts'.removed = Cardinality(confirmed) ]_vars

\* C16 witness: two confirmed entries were removed while the file of one
\* of them could not be deleted.
C16_Witness ==
  /\ IsCleanupConfirmed(last_request)
  /\ last_counts.removed = 2
  /\ last_counts.deleted = 1
  /\ last_request.rm_fail # {}
  /\ last_request.rm_fail \subseteq video_files
  /\ pending_file.exists
  /\ DOMAIN pending_file.data = {}

\* C17: a clean-up of the confirmed entries made directly after another
\* one removes nothing: the mapping and the video files stay as the first
\* left them and the count of entries removed is zero.
C17_CleanupIdempotent ==
  [][ ( /\ last_request'.n # last_request.n
        /\ IsCleanupConfirmed(last_request)
        /\ IsCleanupConfirmed(last_request') ) =>
        /\ MappingOf(pending_file') = MappingOf(pending_file)
        /\ video_files' = video_files
        /\ last_counts'.removed \in {0, NotReported}
        /\ last_sent' = "cleanup_done" => last_counts'.removed = 0 ]_vars

\* C17 witness: the same clean-up request was made twice in a row, the
\* second removed nothing and an unconfirmed entry is still there.
C17_Witness ==
  /\ last_request.n = 2
  /\ last_request.again
  /\ IsCleanupConfirmed(last_request)
  /\ last_counts.removed = 0
  /\ pending_file.exists
  /\ DOMAIN pending_file.data = {V1}

\* C18 (as claimed): after the operator's chat command /confirm with no
\* argument or with two or more, the message last sent is the usage message;
\* after /confirm with one argument it is an answer of confirm_download.
C18_ConfirmArity ==
  ( /\ last_request.via = "chat"
    /\ IsOperatorMessage(last_request.update)
    /\ words(last_request.update.text) # << >>
    /\ words(last_request.update.text)[1] = << "/","c","o","n","f","i","r","m" >> )
  => IF Len(words(last_request.update.text)) = 2
       THEN last_sent \in {"confirmed", "confirmed_file_gone", "invalid_id",
                           "nothing_pending"}
       ELSE last_sent = "usage"

\* C19: an invocation that writes the pending file writes the mapping it
\* loaded less the entries its operation removes, whatever the file holds
\* by then; one that removes nothing by confirm or only lists leaves the
\* file alone.  So what another invocation wrote in between is lost.
C19_SaveOverwrites ==
  [][ \A p \in Procs :
        (loaded[p].busy /\ ~loaded'[p].busy) =>
          LET snap == MappingOf(loaded[p].file)
              req  == last_request'
              selected ==
                IF IsCleanupConfirmed(req)
                  THEN {id \in DOMAIN snap : snap[id].confirmed}
                ELSE IF IsCleanupExpired(req)
                  THEN {id \in DOMAIN snap :
                          /\ ~snap[id].confirmed
                          /\ clock - snap[id].timestamp > ExpiryHours}
                ELSE ConfirmIds(req) \cap DOMAIN snap
              writes == \/ IsCleanupConfirmed(req)
                        \/ IsCleanupExpired(req)
                        \/ selected # {}
              after == MappingOf(pending_file')
          IN  /\ req.argv = loaded[p].argv
              /\ writes =>
                   /\ pending_file'.exists
                   /\ DOMAIN after = DOMAIN snap \ selected
                   /\ \A id \in DOMAIN after : after[id] = snap[id]
              /\ ~writes => pending_file' = pending_file ]_vars

\* C19 witness: both invocations have ended, and an entry that one of them
\* removed is in the pending file again.
C19_Witness ==
  /\ pc = "race"
  /\ \A p \in Procs : ~loaded[p].busy
  /\ last_request.n = 2
  /\ pending_file.exists
  /\ removed_ids \cap DOMAIN pending_file.data # {}

\* C20: from the start of the conversation on, the cancel-marker file is
\* absent as long as no cancel directive of the operator was evaluated, and
\* when it is there the conversation was cancelled: a timeout, a completed
\* conversation or a failed request leaves no marker.
C20_MarkerOnlyByCancel ==
  pc \notin {"main", "collect"} =>
     /\ ~cancel_evaluated => cancel_flag_file = NoFile
     /\ cancel_flag_file = FlagCancelled =>
          /\ cancel_evaluated
          /\ cancelled
          /\ outcome = "cancelled"
     /\ outcome \in {"timeout", "completed", "empty_document"} =>
          cancel_flag_file = NoFile

\* C20 witness: the Description step timed out, main has returned, and
\* there is no marker.
C20_Witness ==
  /\ pc = "exit"
  /\ outcome = "timeout"
  /\ step = "description"
  /\ ~cancel_evaluated
  /\ cancel_flag_file = NoFile

\* C21 (as claimed): whatever the outcome of the startup lookup, the cursor
\* TelegramCollector() starts with is past every update that was on the feed
\* at startup, and no poll of the run evaluates such an update.
C21_NoStaleReplay ==
  [][ /\ (pc = "main" /\ pc' = "collect") =>
           \A id \in stale_ids : update_offset' > id
      /\ \A i \in (Len(seen) + 1)..Len(seen') : seen'[i] \notin stale_ids ]_vars

\* C22: during wait_for_message the reminders sent never outnumber the whole
\* periods of 120 seconds that have elapsed, and no two of them are sent in
\* the same period.
C22_RemindersPaced ==
  /\ Len(reminder_log) <= (now - start_time) \div ReminderPeriod
  /\ \A i, j \in 1..Len(reminder_log) :
       i < j => reminder_log[i] < reminder_log[j]

\* C22 witness: a wait that went on to its timeout, with a reminder in each of
\* the four periods that began before it.
C22_Witness ==
  /\ pc = "timed_returned"
  /\ outcome = "timeout"
  /\ Len(reminder_log) = 4

\* C23 (as claimed): the segment count the completion summary reports is
\* 2 * word_count / 150, that is word_count / 75, rounded up.
C23_SegmentsCeil ==
  pc = "summarised" =>
     /\ segments * 75 >= palavra_count
     /\ (segments - 1) * 75 < palavra_count

\* History only: update u is a non-empty text of the operator that is no
\* cancel directive
IsReply(u) ==
  /\ u.kind = "message"
  /\ u.chat = TELEGRAM_CHAT_ID
  /\ strip(u.text) # << >>
  /\ lower(strip(u.text)) \notin CancelDirectives

\* History only: this step of the model returns `text` as the answer of the
\* step that was waiting
AnsweredWith(text) ==
  /\ step' = NextStep(step)
  /\ step = "title" => titulo' = text
  /\ step = "description" => descricao' = text
  /\ step = "tags" => tags_text' = text

\* C24 (as claimed): while a step waits in wait_for_message, every non-empty
\* text of the operator that is no cancel directive and that the cursor moves
\* past is returned as the answer of that step.
C24_NoReplyLost ==
  [][ \A i \in 1..Len(updates) :
        ( /\ pc \in {"wait_top", "wait_poll"}
          /\ updates[i].update_id >= update_offset
          /\ updates[i].update_id < update_offset'
          /\ IsReply(updates[i]) )
        => AnsweredWith(strip(updates[i].text)) ]_vars

\* C25 (as claimed): a request of the chat that does not come from the
\* configured recipient chat, text command or button callback, leaves the
\* pending mapping and the video files as they were.
C25_OnlyRecipientMutates ==
  [][ ( /\ last_request'.n = last_request.n + 1
        /\ last_request'.via = "chat"
        /\ last_request'.update.chat # TELEGRAM_CHAT_ID )
      => ( /\ MappingOf(pending_file') = MappingOf(pending_file)
           /\ video_files' = video_files ) ]_vars

\* C26: when the Script step reaches its timeout with at least one fragment
\* collected, the fragments joined by newlines are the script, the
\* conversation is completed and the production record is written from that
\* script; when it reaches its timeout with no fragment, the conversation is
\* abandoned and no record is written.
C26_TimeoutKeepsFragments ==
  script_via = "timeout" =>
     IF roteiro_partes # << >>
       THEN /\ outcome = "completed"
            /\ retval = "video_data"
            /\ Len(production_files) = 1
            /\ production_files[1].script = join(roteiro_partes)
            /\ production_files[1].script = join(script_log)
       ELSE /\ outcome = "timeout"
            /\ retval = "None"
            /\ production_files = << >>

\* C26 witness: the Script step timed out after two fragments and the record
\* was written.
C26_Witness ==
  /\ script_via = "timeout"
  /\ Len(roteiro_partes) = 2
  /\ outcome = "completed"
  /\ Len(production_files) = 1

\* C27 (as claimed): the update a step takes as its answer, and every update
\* the Script step takes as a fragment, reached the feed after the prompt of
\* that step was sent.
C27_AnswerAfterPrompt ==
  [][ \A i \in 1..Len(updates) :
        ( /\ updates[i].update_id \in backlog
          /\ updates[i].update_id >= update_offset
          /\ updates[i].update_id < update_offset' )
        => /\ ~(pc = "wait_poll" /\ IsReply(updates[i])
                  /\ AnsweredWith(strip(updates[i].text)))
           /\ ~(pc = "script" /\ IsFragmentEvent(updates[i])
                  /\ Len(roteiro_partes') > Len(roteiro_partes)) ]_vars

\* C28: a store operation leaves the same mapping and the same video files
\* whether manage_downloads.py or the chat runs it: the store a request
\* leaves is the one the other implementation of the same operation gives
\* for the same store, argument and os.remove failures, a pending file that
\* does not exist counting as the empty mapping.
C28_StoreEquivalence ==
  [][ LET st  == [file |-> pending_file, files |-> video_files,
                  sent |-> last_sent, counts |-> last_counts]
          r   == last_request'
          cli == r.via = "cli"
          Same(res) == /\ MappingOf(pending_file') = MappingOf(res.file)
                       /\ video_files' = res.files
      IN  r.n = last_request.n + 1 =>
            /\ \A id \in ConfirmIds(r) :
                 Same(IF cli THEN confirm_download(st, id, r.rm_fail)
                      ELSE manager_confirm_download(st, id, r.rm_fail))
            /\ IsCleanupConfirmed(r) =>
                 Same(IF cli THEN cleanup_confirmed_downloads(st, r.rm_fail)
                      ELSE cleanup_confirmed(st, r.rm_fail))
            /\ IsCleanupExpired(r) =>
                 Same(IF cli
                        THEN cleanup_expired_downloads(st, ExpiryHours,
                                                       r.rm_fail)
                        ELSE cleanup_expired(st, ExpiryHours, r.rm_fail))
    ]_vars

\* C28 witness: manage_downloads.py has cleaned the expired entries up on a
\* store of two entries, one of which expired while the other stays, and a
\* video file could not be deleted.
C28_Witness ==
  /\ pc = "store"
  /\ last_request.via = "cli"
  /\ IsCleanupExpired(last_request)
  /\ last_request.rm_fail # {}
  /\ last_counts.removed = 1
  /\ last_counts.pending = 1
  /\ video_files # {}

\* How a wait_for_message that has returned ended
WaitEndings == {"answered", "cancelled", "timeout"}

====
